---------------------------- MODULE Spec2Model ----------------------------
(***************************************************************************)
(* A model of the yuushacms static-site generator variants.                *)
(*                                                                         *)
(* Strings are sequences of one-character strings, so that the string      *)
(* operations of the code (replace, toLowerCase, endsWith, template        *)
(* literals) are computed rather than assumed.                             *)
(*                                                                         *)
(* Spec           : ssg.js (second program) runSSG / processContent        *)
(* SpecConcurrent : part_004 runSSG / processContent, one task per file    *)
(* SpecRender     : one call of renderTemplate, of ssg.js or of index.js   *)
(***************************************************************************)
EXTENDS Integers, Sequences, FiniteSets, TLC

VARIABLES
    pc,             \* position of runSSG / processContent
    postsPerPage,   \* config.pagination.postsPerPage
    contentDir,     \* the content directory: listing of [file, title]
    markdownFiles,  \* discovered Markdown files, in discovery order
    idx,            \* index of the next file of the file loop (1-based)
    posts,          \* the Post list: [title, url]
    skippedEntries, \* [title, link] of files without a title
    written,        \* log of fs.writeFile calls: [path, kind, html]
    postSlices,     \* posts cut into pages
    totalPages,     \* number of index pages
    pageTask,       \* per page number: state of its concurrently started task
    reported,       \* the build statistics were printed
    caught,         \* the run rejected and runSSG().catch logged the error
    fileTask,       \* part_004: per discovered file, the state of its task
    variant,        \* renderTemplate: which program's renderTemplate is called
    tplIn,          \* renderTemplate: the template argument
    ctxIn,          \* renderTemplate: the caller's context, before the call
    template,       \* renderTemplate: the local variable template
    context,        \* renderTemplate: the caller's context object
    partialCache,   \* the partial cache (index.js: the partials argument)
    partialsDir,    \* the partials directory: name -> text of <name>.html
    sources,        \* data extractor: per data source, its kind and task state
    extractor,      \* data extractor: state of extractDataFromSources
    mdWritten,      \* data extractor: sources whose Markdown files were written
    dataIdx,        \* data extractor (part_002): index of the file loop
    pipelineStarted,\* the caller went on after await extractDataFromSources
    slugIn,         \* sanitizeSlug: the input of the call
    slugOut,        \* sanitizeSlug: what the call returned
    slugAgain,      \* sanitizeSlug: what a call on slugOut returned
    records,        \* generateMarkdownFromCsv: the titles of the records
    recIdx,         \* generateMarkdownFromCsv: index of the record loop
    existingSlugs,  \* generateMarkdownFromCsv: the set existingSlugs
    recSlugs,       \* generateMarkdownFromCsv: the slug given to each record
    tagData,        \* ssg.js: the tag buckets [tagType, key, posts], in key order
    readCall,       \* readFile: the calls under way, [pc, name, result]
    partialsConfig  \* config.partials: [include, exclude], lists of names

vars == <<pc, postsPerPage, contentDir, markdownFiles, idx, posts,
          skippedEntries, written, postSlices, totalPages, pageTask,
          reported, caught, fileTask, variant, tplIn, ctxIn, template,
          context, partialCache, partialsDir, sources, extractor, mdWritten,
          dataIdx, pipelineStarted, slugIn, slugOut, slugAgain, records,
          recIdx, existingSlugs, recSlugs, tagData, readCall, partialsConfig>>

\* the state of the data extractor
extractVars == <<sources, extractor, mdWritten, dataIdx, pipelineStarted>>

\* the state of a renderTemplate call
renderVars == <<variant, tplIn, ctxIn, template, context, partialCache,
                partialsDir>>

\* the state of the slug functions and of the record loop
slugVars == <<slugIn, slugOut, slugAgain, records, recIdx, existingSlugs,
              recSlugs>>

\* the state of the pipelines
pipelineVars == <<postsPerPage, contentDir, markdownFiles, idx, posts,
                  skippedEntries, written, postSlices, totalPages, pageTask,
                  reported, caught, fileTask, extractVars, slugVars,
                  tagData, readCall, partialsConfig>>

\* what the paginated pipeline of ssg.js never touches
notSsgVars == <<fileTask, renderVars, extractVars, slugVars, readCall, partialsConfig>>

-----------------------------------------------------------------------------
(* config.partials as committed: include: [], exclude: []                  *)

AsCommitted == [include |-> <<>>, exclude |-> <<>>]

-----------------------------------------------------------------------------
(* Bounds of the model                                                     *)

MaxFiles == 4

MaxPerPage == 3

(* config.pagination.postsPerPage as committed                             *)
PostsPerPageDefault == 10

-----------------------------------------------------------------------------
(* Strings                                                                 *)

\* JavaScript null / undefined: no string, so unlike every string
Null == <<"null">>

UpperChars == <<"A","B","C","D","E","F","G","H","I","J","K","L","M",
                "N","O","P","Q","R","S","T","U","V","W","X","Y","Z">>

LowerChars == <<"a","b","c","d","e","f","g","h","i","j","k","l","m",
                "n","o","p","q","r","s","t","u","v","w","x","y","z">>

DigitChars == <<"0","1","2","3","4","5","6","7","8","9">>

\* String.prototype.toLowerCase, one character
LowerChar(c) ==
    IF \E k \in 1..26 : UpperChars[k] = c
    THEN LowerChars[CHOOSE k \in 1..26 : UpperChars[k] = c]
    ELSE c

\* String.prototype.toLowerCase
ToLowerCase(s) == [k \in 1..Len(s) |-> LowerChar(s[k])]

\* the regular expression class \s
IsSpace(c) == c \in {" ", "\t", "\n", "\r"}

\* the string form of a non-negative integer (template literal ${n})
RECURSIVE NumStr(_)
NumStr(n) ==
    IF n < 10 THEN <<DigitChars[n + 1]>>
    ELSE NumStr(n \div 10) \o <<DigitChars[(n % 10) + 1]>>

\* does pat occur in s at position k
OccursAt(s, pat, k) ==
    /\ k >= 1
    /\ k + Len(pat) - 1 <= Len(s)
    /\ \A j \in 1..Len(pat) : s[k + j - 1] = pat[j]

\* String.prototype.indexOf, 1-based; 0 when pat does not occur
IndexOf(s, pat) ==
    IF \E k \in 1..(Len(s) + 1) : OccursAt(s, pat, k)
    THEN CHOOSE k \in 1..(Len(s) + 1) :
            /\ OccursAt(s, pat, k)
            /\ \A j \in 1..(k - 1) : ~OccursAt(s, pat, j)
    ELSE 0

\* String.prototype.replace(pat, rep) with a string pattern: the first
\* occurrence only (rep without $ patterns)
ReplaceFirst(s, pat, rep) ==
    LET k == IndexOf(s, pat) IN
    IF k = 0 THEN s
    ELSE SubSeq(s, 1, k - 1) \o rep \o SubSeq(s, k + Len(pat), Len(s))

\* String.prototype.endsWith
EndsWith(s, suf) ==
    /\ Len(suf) <= Len(s)
    /\ SubSeq(s, Len(s) - Len(suf) + 1, Len(s)) = suf

\* String.prototype.replace(/\s+/g, rep): every maximal run of white space
RECURSIVE ReplaceSpaceRuns(_, _)
ReplaceSpaceRuns(s, rep) ==
    IF s = <<>> THEN <<>>
    ELSE IF IsSpace(Head(s))
         THEN IF Len(s) > 1 /\ IsSpace(s[2])
              THEN ReplaceSpaceRuns(Tail(s), rep)
              ELSE rep \o ReplaceSpaceRuns(Tail(s), rep)
         ELSE <<Head(s)>> \o ReplaceSpaceRuns(Tail(s), rep)

\* String.prototype.replace(/-/g, rep)
ReplaceHyphens(s, rep) ==
    [k \in 1..Len(s) |-> IF s[k] = "-" THEN rep ELSE s[k]]

ExtMd   == <<".", "m", "d">>
ExtTxt  == <<".", "t", "x", "t">>
ExtHtml == <<".", "h", "t", "m", "l">>

-----------------------------------------------------------------------------
(* The content directory                                                   *)

\* names of the entries of the content directory, by listing position; the
\* third one lies in a subdirectory (content/games/), the fourth one has
\* ".md" inside its name
BaseName(i) ==
    IF i = 2 THEN <<"i", "n", "d", "e", "x">>
    ELSE IF i = 3 THEN <<"g", "a", "m", "e", "s", "/", "p">> \o NumStr(i)
    ELSE IF i = 4 THEN <<"p">> \o NumStr(i) \o <<".", "m", "d", "x">>
    ELSE <<"p">> \o NumStr(i)

NoTitle == <<>>

MyPost == <<"M", "y", " ", "P", "o", "s", "t">>

\* front matter titles of the Markdown files
Titles == {NoTitle, MyPost}

\* the genre field of the front matter: missing, one value, or an array of
\* values; a plain word, a value with characters that URL-encoding changes,
\* and a value of more than 50 characters
NoGenre == <<>>

News == <<"N", "e", "w", "s">>

CPlusPlus == <<"C", "+", "+">>

LongGenre == [k \in 1..51 |-> IF k = 1 THEN "L" ELSE "o"]

Genres == {NoGenre, <<News>>, <<CPlusPlus>>, <<LongGenre>>, <<News, CPlusPlus>>}

\* the first two entries carry any of the genres when they have a title
GenresAt(i, title) ==
    IF i <= 2 /\ title # NoTitle THEN Genres ELSE {NoGenre}

\* one directory entry: a Markdown file with its front matter title and
\* genre, or a file that is not Markdown
EntriesAt(i) ==
    UNION {{[file |-> BaseName(i) \o ExtMd, title |-> t, genre |-> g] :
                g \in GenresAt(i, t)} : t \in Titles}
    \cup {[file |-> BaseName(i) \o ExtTxt, title |-> NoTitle, genre |-> NoGenre]}

RECURSIVE Listings(_)
Listings(n) ==
    IF n = 0 THEN {<<>>}
    ELSE {Append(l, e) : l \in Listings(n - 1), e \in EntriesAt(n)}

PageSizes == (1..MaxPerPage) \cup {PostsPerPageDefault}


-----------------------------------------------------------------------------
(* ssg.js, second program: the paginated pipeline                          *)

OutputDir == <<"p", "u", "b", "l", "i", "c">>

\* path.join(a, b) for two already normalised relative paths
PathJoin(a, b) == a \o <<"/">> \o b

\* the front matter of a discovered file (fs.readFile + matter)
FrontMatter(file) ==
    (CHOOSE k \in 1..Len(contentDir) : contentDir[k].file = file)

\* title.replace(/\s+/g, '-').toLowerCase()
TitleSlug(title) == ToLowerCase(ReplaceSpaceRuns(title, <<"-">>))

\* FileSlug, had the output been named after the title
FileSlugFromTitle(file) == TitleSlug(contentDir[FrontMatter(file)].title)

\* const slug = file.replace('.md', '')
FileSlug(file) == ReplaceFirst(file, ExtMd, <<>>)

\* generateSingleHTML: the contexts handed to the single and base layouts
GenerateSingleHTML(title, fileName) ==
    LET finalTitle == IF title # <<>> THEN title
                      ELSE ReplaceHyphens(ReplaceFirst(fileName, ExtMd, <<>>), " ")
    IN [layout |-> "single", title |-> finalTitle]

\* CeilDiv, had Math.floor been used
FloorDiv(n, s) == n \div s

\* Math.ceil(n / s)
CeilDiv(n, s) == (n + s - 1) \div s

\* Array.prototype.slice(from, to), 0-based, end exclusive, clamped
Slice(a, from, to) ==
    LET lo == IF from > Len(a) THEN Len(a) ELSE from
        hi == IF to > Len(a) THEN Len(a) ELSE to
    IN IF hi <= lo THEN <<>> ELSE SubSeq(a, lo + 1, hi)

\* PageFileName, had page 1 been numbered like the others
PageFileNameNumbered(pageNumber) ==
    <<"i", "n", "d", "e", "x", "-">> \o NumStr(pageNumber) \o ExtHtml

\* pageNumber === 1 ? 'index.html' : `index-${pageNumber}.html`
PageFileName(pageNumber) ==
    IF pageNumber = 1 THEN <<"i", "n", "d", "e", "x">> \o ExtHtml
    ELSE <<"i", "n", "d", "e", "x", "-">> \o NumStr(pageNumber) \o ExtHtml

\* `/yuushacms/index-${n}.html`
IndexPageUrl(n) ==
    <<"/", "y", "u", "u", "s", "h", "a", "c", "m", "s", "/">>
    \o <<"i", "n", "d", "e", "x", "-">> \o NumStr(n) \o ExtHtml

\* pageNumber > 1 ? `/yuushacms/index-${pageNumber - 1}.html` : null
PrevPage(pageNumber) ==
    IF pageNumber > 1 THEN IndexPageUrl(pageNumber - 1) ELSE Null

\* NextPage, had the comparison been <=
NextPageOffByOne(pageNumber, total) ==
    IF pageNumber <= total THEN IndexPageUrl(pageNumber + 1) ELSE Null

\* pageNumber < totalPages ? `/yuushacms/index-${pageNumber + 1}.html` : null
NextPage(pageNumber, total) ==
    IF pageNumber < total THEN IndexPageUrl(pageNumber + 1) ELSE Null

\* generateIndex: the contexts handed to the list and index layouts
GenerateIndex(slices, pageNumber, total) ==
    [layout      |-> "index",
     posts       |-> slices[pageNumber],
     currentPage |-> pageNumber,
     totalPages  |-> total,
     prevPage    |-> PrevPage(pageNumber),
     nextPage    |-> NextPage(pageNumber, total)]

NoHtml == [layout |-> "none"]

\* the tag types extractTagTypesFromLayouts finds in the layouts
Genre == <<"g", "e", "n", "r", "e">>

TagTypes == <<Genre>>

\* the front matter field of a tag type
FieldOf(data, tagType) == IF tagType = Genre THEN data.genre ELSE <<>>

\* sanitizeTagValue: const maxLength = 50
TagMaxLength == 50

\* encodeURIComponent, one character: letters, digits and - _ . ! ~ * ' ( )
\* are kept, the other characters of the model become %XX
EncodeChar(c) ==
    IF c = "+" THEN <<"%", "2", "B">>
    ELSE IF c = "%" THEN <<"%", "2", "5">>
    ELSE IF c = " " THEN <<"%", "2", "0">>
    ELSE IF c = "/" THEN <<"%", "2", "F">>
    ELSE <<c>>

\* encodeURIComponent
RECURSIVE EncodeURIComponent(_)
EncodeURIComponent(s) ==
    IF s = <<>> THEN <<>> ELSE EncodeChar(Head(s)) \o EncodeURIComponent(Tail(s))

\* sanitizeTagValue(tagValue)
SanitizeTagValue(tagValue) ==
    LET truncated == IF Len(tagValue) > TagMaxLength
                     THEN SubSeq(tagValue, 1, TagMaxLength) \o <<".", ".", ".">>
                     ELSE tagValue
    IN EncodeURIComponent(ReplaceSpaceRuns(ToLowerCase(truncated), <<"-">>))

\* AddToBucket, had the post been put in front of its bucket (unshift)
AddToBucketFront(data, tagType, key, post) ==
    IF \E k \in 1..Len(data) : data[k].tagType = tagType /\ data[k].key = key
    THEN [k \in 1..Len(data) |->
            IF data[k].tagType = tagType /\ data[k].key = key
            THEN [data[k] EXCEPT !.posts = <<post>> \o @]
            ELSE data[k]]
    ELSE Append(data, [tagType |-> tagType, key |-> key, posts |-> <<post>>])

\* tagData[tagType][key].push(post), creating the bucket when it is missing
AddToBucket(data, tagType, key, post) ==
    IF \E k \in 1..Len(data) : data[k].tagType = tagType /\ data[k].key = key
    THEN [k \in 1..Len(data) |->
            IF data[k].tagType = tagType /\ data[k].key = key
            THEN [data[k] EXCEPT !.posts = Append(@, post)]
            ELSE data[k]]
    ELSE Append(data, [tagType |-> tagType, key |-> key, posts |-> <<post>>])

\* tagValues.forEach(...) for one tag type
RECURSIVE CollectValues(_, _, _, _)
CollectValues(data, tagType, tagValues, post) ==
    IF tagValues = <<>> THEN data
    ELSE CollectValues(
             AddToBucket(data, tagType, SanitizeTagValue(Head(tagValues)), post),
             tagType, Tail(tagValues), post)

\* tagTypes.forEach(...): the post is added to the bucket of each of its
\* tag values
RECURSIVE CollectTags(_, _, _, _)
CollectTags(data, tagTypes, frontMatter, post) ==
    IF tagTypes = <<>> THEN data
    ELSE CollectTags(
             CollectValues(data, Head(tagTypes),
                           FieldOf(frontMatter, Head(tagTypes)), post),
             Tail(tagTypes), frontMatter, post)

TagsDir == <<"t", "a", "g", "s">>

\* `/tags/${tagType}/${sanitizedTagValue}/page-${n}.html`
TagPageUrl(tagType, sanitizedTagValue, n) ==
    <<"/">> \o TagsDir \o <<"/">> \o tagType \o <<"/">> \o sanitizedTagValue
    \o <<"/", "p", "a", "g", "e", "-">> \o NumStr(n) \o ExtHtml

\* pageNumber === 1 ? 'index.html' : `page-${pageNumber}.html`
TagPageFileName(pageNumber) ==
    IF pageNumber = 1 THEN <<"i", "n", "d", "e", "x">> \o ExtHtml
    ELSE <<"p", "a", "g", "e", "-">> \o NumStr(pageNumber) \o ExtHtml

\* generateTagPages: the pages of one bucket, in page order
BucketPages(bucket, perPage) ==
    LET total == CeilDiv(Len(bucket.posts), perPage)
        sanitizedTagValue == SanitizeTagValue(bucket.key)
        tagPageDir == PathJoin(PathJoin(PathJoin(OutputDir, TagsDir),
                                        bucket.tagType), sanitizedTagValue)
    IN [pageNumber \in 1..total |->
          [path |-> PathJoin(tagPageDir, TagPageFileName(pageNumber)),
           kind |-> "tag",
           html |-> [layout   |-> "tag",
                     tagType  |-> bucket.tagType,
                     tagValue |-> bucket.key,
                     posts    |-> Slice(bucket.posts, (pageNumber - 1) * perPage,
                                        pageNumber * perPage),
                     prevPage |-> IF pageNumber > 1
                                  THEN TagPageUrl(bucket.tagType,
                                           sanitizedTagValue, pageNumber - 1)
                                  ELSE Null,
                     nextPage |-> IF pageNumber < total
                                  THEN TagPageUrl(bucket.tagType,
                                           sanitizedTagValue, pageNumber + 1)
                                  ELSE Null]]]

\* generateTagPages: the pages of every bucket, in the order they are written
RECURSIVE TagPages(_, _)
TagPages(data, perPage) ==
    IF data = <<>> THEN <<>>
    ELSE BucketPages(Head(data), perPage) \o TagPages(Tail(data), perPage)

\* no slug is being computed
SlugIdle ==
    /\ slugIn = <<>>
    /\ slugOut = Null
    /\ slugAgain = Null
    /\ records = <<>>
    /\ recIdx = 1
    /\ existingSlugs = {}
    /\ recSlugs = <<>>

\* no data extraction is under way
ExtractIdle ==
    /\ sources = <<>>
    /\ extractor = "idle"
    /\ mdWritten = {}
    /\ dataIdx = 1
    /\ pipelineStarted = FALSE

SsgInit ==
    /\ pc = "preload"
    /\ postsPerPage \in PageSizes
    /\ contentDir \in UNION {Listings(n) : n \in 0..MaxFiles}
    /\ markdownFiles = <<>>
    /\ idx = 1
    /\ posts = <<>>
    /\ skippedEntries = <<>>
    /\ written = <<>>
    /\ postSlices = <<>>
    /\ totalPages = 0
    /\ pageTask = <<>>
    /\ reported = FALSE
    /\ caught = FALSE
    /\ fileTask = <<>>
    /\ tagData = <<>>
    /\ readCall = <<>>
    /\ partialsConfig = AsCommitted
    /\ variant = "none"
    /\ tplIn = <<>>
    /\ ctxIn = <<>>
    /\ template = <<>>
    /\ context = <<>>
    /\ partialCache = <<>>
    /\ partialsDir = <<>>
    /\ ExtractIdle
    /\ SlugIdle

\* runSSG: await preloadTemplates()
PreloadTemplates ==
    /\ pc = "preload"
    /\ pc' = "tagTypes"
    /\ UNCHANGED <<postsPerPage, contentDir, markdownFiles, idx, posts,
                   skippedEntries, written, postSlices, totalPages, pageTask,
                   reported, caught>>
    /\ UNCHANGED tagData
    /\ UNCHANGED notSsgVars

\* runSSG: await extractTagTypesFromLayouts()
ExtractTagTypes ==
    /\ pc = "tagTypes"
    /\ pc' = "extract"
    /\ UNCHANGED <<postsPerPage, contentDir, markdownFiles, idx, posts,
                   skippedEntries, written, postSlices, totalPages, pageTask,
                   reported, caught>>
    /\ UNCHANGED tagData
    /\ UNCHANGED notSsgVars

\* processContent: await extractDataFromSources(config), which catches the
\* errors it is handed; when the response stream of a CSV source fails, the
\* await never resumes or an uncaught 'error' event ends the process
ExtractData ==
    /\ pc = "extract"
    /\ \/ pc' = "discover"
       \/ pc' = "halted"
    /\ UNCHANGED <<postsPerPage, contentDir, markdownFiles, idx, posts,
                   skippedEntries, written, postSlices, totalPages, pageTask,
                   reported, caught>>
    /\ UNCHANGED tagData
    /\ UNCHANGED notSsgVars

\* processContent: traverse the content directory, keep the .md files
Discover ==
    /\ pc = "discover"
    /\ markdownFiles' =
         LET md == {k \in 1..Len(contentDir) : EndsWith(contentDir[k].file, ExtMd)}
             RECURSIVE Collect(_)
             Collect(k) ==
                 IF k > Len(contentDir) THEN <<>>
                 ELSE (IF k \in md THEN <<contentDir[k].file>> ELSE <<>>)
                      \o Collect(k + 1)
         IN Collect(1)
    /\ idx' = 1
    /\ pc' = "loop"
    /\ UNCHANGED <<postsPerPage, contentDir, posts, skippedEntries, written,
                   postSlices, totalPages, pageTask, reported, caught>>
    /\ UNCHANGED tagData
    /\ UNCHANGED notSsgVars

\* what one iteration of the file loop can meet
Outcomes == {"ok", "readError", "parseError", "renderError", "writeError"}

\* SkipEntry, had the `continue` been left out: the iteration goes on to
\* render and write the file under its guessed title
SkipEntryNoContinue(file) ==
    LET slug == ReplaceFirst(file, ExtMd, <<>>)
    IN /\ skippedEntries' = Append(skippedEntries,
                [title |-> slug, link |-> slug \o ExtHtml])
       /\ written' = Append(written,
                [path |-> PathJoin(OutputDir, slug \o ExtHtml), kind |-> "post",
                 html |-> [layout |-> "single",
                           title |-> ReplaceHyphens(slug, " ")]])
       /\ posts' = Append(posts, [title |-> ReplaceHyphens(slug, " "),
                                  url |-> slug \o ExtHtml])
       /\ idx' = idx + 1
       /\ UNCHANGED <<pc, tagData>>

\* one iteration of the file loop, for a file without a title
SkipEntry(file) ==
    /\ skippedEntries' = Append(skippedEntries,
            [title |-> ReplaceFirst(file, ExtMd, <<>>),
             link  |-> ReplaceFirst(file, ExtMd, <<>>) \o ExtHtml])
    /\ idx' = idx + 1
    /\ UNCHANGED <<pc, posts, written, tagData>>

\* one iteration of the file loop, for a file with a title
WritePost(file, title) ==
    LET html  == GenerateSingleHTML(title, file)
        slug  == FileSlug(file)
        outputFilePath == PathJoin(OutputDir, slug \o ExtHtml)
        postTitle == IF title # <<>> THEN title ELSE ReplaceHyphens(slug, " ")
        post  == [title |-> postTitle, url |-> slug \o ExtHtml]
    IN /\ written' = Append(written,
                [path |-> outputFilePath, kind |-> "post", html |-> html])
       /\ posts' = Append(posts, post)
       /\ tagData' = CollectTags(tagData, TagTypes,
                                 contentDir[FrontMatter(file)], post)
       /\ idx' = idx + 1
       /\ UNCHANGED <<pc, skippedEntries>>

\* an exception of the loop body: nothing in processContent or runSSG
\* catches it, so both reject
Throw ==
    /\ pc' = "rejected"
    /\ UNCHANGED <<idx, posts, skippedEntries, written, tagData>>

\* processContent: the body of `for (const file of markdownFiles)`
ProcessFile ==
    /\ pc = "loop"
    /\ idx <= Len(markdownFiles)
    /\ \E outcome \in Outcomes :
         LET file  == markdownFiles[idx]
             title == contentDir[FrontMatter(file)].title
         IN IF outcome \in {"readError", "parseError"}
            THEN Throw
            ELSE IF title = <<>>
            THEN SkipEntry(file)
            ELSE IF outcome \in {"renderError", "writeError"}
            THEN Throw
            ELSE WritePost(file, title)
    /\ UNCHANGED <<postsPerPage, contentDir, markdownFiles, postSlices,
                   totalPages, pageTask, reported, caught>>
    /\ UNCHANGED notSsgVars

\* processContent: await generateTagPages(tagData): every page of every
\* bucket is rendered and written, one after the other; an exception of a
\* render or a write ends the run after the pages written before it
GenerateTagPages ==
    /\ pc = "loop"
    /\ idx > Len(markdownFiles)
    /\ LET pages == TagPages(tagData, postsPerPage)
       IN \/ /\ written' = written \o pages
             /\ pc' = "paginate"
          \/ \E n \in 0..(Len(pages) - 1) :
                /\ written' = written \o SubSeq(pages, 1, n)
                /\ pc' = "rejected"
    /\ UNCHANGED <<postsPerPage, contentDir, markdownFiles, idx, posts,
                   skippedEntries, postSlices, totalPages, pageTask,
                   reported, caught, tagData>>
    /\ UNCHANGED notSsgVars

\* processContent: cut the Post list into pages and start one task per page;
\* each task runs to its first await inside generateIndex
Paginate ==
    /\ pc = "paginate"
    /\ LET total == CeilDiv(Len(posts), postsPerPage) IN
        /\ totalPages' = total
        /\ postSlices' = [i \in 1..total |->
                Slice(posts, (i - 1) * postsPerPage, i * postsPerPage)]
        /\ pageTask' = [p \in 1..total |->
                [pc |-> "render", pageNumber |-> p, html |-> NoHtml]]
    /\ pc' = "pages"
    /\ UNCHANGED <<postsPerPage, contentDir, markdownFiles, idx, posts,
                   skippedEntries, written, reported, caught>>
    /\ UNCHANGED tagData
    /\ UNCHANGED notSsgVars

\* a page task: await generateIndex(postSlices, pageNumber, totalPages)
PageRender(p) ==
    /\ pc = "pages"
    /\ pageTask[p].pc = "render"
    /\ pageTask' = [pageTask EXCEPT ![p] =
            [pc |-> "write", pageNumber |-> @.pageNumber,
             html |-> GenerateIndex(postSlices, @.pageNumber, totalPages)]]
    /\ UNCHANGED <<pc, postsPerPage, contentDir, markdownFiles, idx, posts,
                   skippedEntries, written, postSlices, totalPages, reported,
                   caught>>
    /\ UNCHANGED tagData
    /\ UNCHANGED notSsgVars

\* a page task: await fs.writeFile(`${outputDir}/${pageFileName}`, indexHTML)
PageWrite(p) ==
    /\ pc = "pages"
    /\ pageTask[p].pc = "write"
    /\ written' = Append(written,
            [path |-> OutputDir \o <<"/">> \o PageFileName(pageTask[p].pageNumber),
             kind |-> "index", html |-> pageTask[p].html])
    /\ pageTask' = [pageTask EXCEPT ![p].pc = "done"]
    /\ UNCHANGED <<pc, postsPerPage, contentDir, markdownFiles, idx, posts,
                   skippedEntries, postSlices, totalPages, reported, caught>>
    /\ UNCHANGED tagData
    /\ UNCHANGED notSsgVars

\* processContent: after await Promise.all(pagePromises), the build
\* statistics; then runSSG resolves
Report ==
    /\ pc = "pages"
    /\ \A p \in 1..Len(pageTask) : pageTask[p].pc = "done"
    /\ reported' = TRUE
    /\ pc' = "done"
    /\ UNCHANGED <<postsPerPage, contentDir, markdownFiles, idx, posts,
                   skippedEntries, written, postSlices, totalPages, pageTask,
                   caught>>
    /\ UNCHANGED tagData
    /\ UNCHANGED notSsgVars

\* runSSG().catch(error => console.error(...))
CatchRejection ==
    /\ pc = "rejected"
    /\ caught' = TRUE
    /\ pc' = "done"
    /\ UNCHANGED <<postsPerPage, contentDir, markdownFiles, idx, posts,
                   skippedEntries, written, postSlices, totalPages, pageTask,
                   reported>>
    /\ UNCHANGED tagData
    /\ UNCHANGED notSsgVars

SsgNext ==
    \/ PreloadTemplates
    \/ ExtractTagTypes
    \/ ExtractData
    \/ Discover
    \/ ProcessFile
    \/ GenerateTagPages
    \/ Paginate
    \/ \E p \in 1..Len(pageTask) : PageRender(p)
    \/ \E p \in 1..Len(pageTask) : PageWrite(p)
    \/ Report
    \/ CatchRejection

Spec == SsgInit /\ [][SsgNext]_vars

-----------------------------------------------------------------------------
(* Properties of the paginated pipeline                                    *)

\* the run is over: runSSG resolved or its rejection was logged
RunOver == pc = "done"

\* the writes of one kind, in the order they were made
WritesOf(kind) == SelectSeq(written, LAMBDA w : w.kind = kind)

\* the files of the loop whose iteration has been completed
Processed == SubSeq(markdownFiles, 1, idx - 1)

TitleOf(file) == contentDir[FrontMatter(file)].title

\* the file name with its first ".md" removed, stated without replace()
StripsTo(file, name) ==
    \E k \in 1..Len(file) :
        /\ OccursAt(file, ExtMd, k)
        /\ \A j \in 1..(k - 1) : ~OccursAt(file, ExtMd, j)
        /\ name = SubSeq(file, 1, k - 1) \o SubSeq(file, k + 3, Len(file))

\* name is the file name with its first ".md" removed, plus ".html"
IsHtmlOf(file, name) ==
    /\ EndsWith(name, ExtHtml)
    /\ StripsTo(file, SubSeq(name, 1, Len(name) - Len(ExtHtml)))

\* path is that name inside the output directory
IsOutputOf(file, path) ==
    /\ Len(path) > Len(OutputDir) + 1
    /\ SubSeq(path, 1, Len(OutputDir) + 1) = OutputDir \o <<"/">>
    /\ IsHtmlOf(file, SubSeq(path, Len(OutputDir) + 2, Len(path)))

Count(seq, P(_)) == Cardinality({k \in 1..Len(seq) : P(seq[k])})

\* C1: when reading, parsing, rendering or writing fails for one discovered
\* file, the failure is caught per file: at the end of the run the loop has
\* gone over every discovered file, the index pages have been written and
\* the build statistics have been reported.
C1_FailureCaughtPerFile ==
    RunOver =>
        /\ idx > Len(markdownFiles)
        /\ Len(WritesOf("index")) = CeilDiv(Len(posts), postsPerPage)
        /\ reported

\* C2: a discovered file without a title gets no post file, no Post and
\* exactly one skippedEntries entry (name without .md, name.html); a file
\* with a title gets exactly one Post; so the processed files are split
\* between the Post list and skippedEntries, and every Post has a
\* non-empty title.
C2_SkippedOrPosted ==
    /\ Len(posts) + Len(skippedEntries) = Len(Processed)
    /\ Len(WritesOf("post")) = Len(posts)
    /\ \A k \in 1..Len(posts) : posts[k].title # <<>>
    /\ \A k \in 1..Len(Processed) :
        LET file == Processed[k]
            InSkipped(e) == StripsTo(file, e.title) /\ e.link = e.title \o ExtHtml
            InPosts(e) == IsHtmlOf(file, e.url)
            InWritten(w) == w.kind = "post" /\ IsOutputOf(file, w.path)
        IN IF TitleOf(file) = <<>>
           THEN /\ Count(skippedEntries, InSkipped) = 1
                /\ Count(posts, InPosts) = 0
                /\ Count(written, InWritten) = 0
           ELSE /\ Count(skippedEntries, InSkipped) = 0
                /\ Count(posts, InPosts) = 1
                /\ Count(written, InWritten) = 1

\* C2 witness: a finished run that skipped a file and posted another
C2_Witness ==
    /\ RunOver /\ reported
    /\ Len(skippedEntries) >= 1
    /\ Len(posts) >= 1

\* the only discovered file and its title, when there is exactly one
OnlyFile == markdownFiles[1]

SingleTitledFile ==
    /\ RunOver /\ reported
    /\ Len(markdownFiles) = 1
    /\ TitleOf(OnlyFile) # <<>>

Min(a, b) == IF a < b THEN a ELSE b

RECURSIVE Concat(_)
Concat(ss) == IF ss = <<>> THEN <<>> ELSE Head(ss) \o Concat(Tail(ss))

\* the index stage has cut the Post list
Paginated == pc = "pages" \/ (RunOver /\ reported)

\* C5: totalPages = ceil(n/s); page p holds posts[(p-1)*s .. p*s) in list
\* order; every page is non-empty, every page but the last holds exactly s
\* posts, and the pages concatenated equal the Post list; the page handed to
\* the list layout of page p is that slice.
C5_Pagination ==
    Paginated =>
        LET n == Len(posts)
            s == postsPerPage
        IN /\ totalPages * s >= n
           /\ totalPages > 0 => (totalPages - 1) * s < n
           /\ totalPages >= 0
           /\ Len(postSlices) = totalPages
           /\ \A p \in 1..totalPages :
                /\ postSlices[p] =
                     [j \in 1..(Min(p * s, n) - (p - 1) * s) |-> posts[(p - 1) * s + j]]
                /\ Len(postSlices[p]) >= 1
                /\ p < totalPages => Len(postSlices[p]) = s
                /\ pageTask[p].pc # "render" => pageTask[p].html.posts = postSlices[p]
           /\ Concat(postSlices) = posts

\* C5 witness: three pages, the last one shorter than the page size
C5_Witness ==
    /\ RunOver /\ reported
    /\ totalPages >= 2
    /\ postsPerPage >= 2
    /\ Len(postSlices[totalPages]) < postsPerPage

\* C6: for every rendered index page p: prevPage is null iff p = 1, nextPage
\* is null iff p = totalPages, and currentPage = p and totalPages reach the
\* index layout unchanged.
C6_PageLinks ==
    \A p \in 1..Len(pageTask) :
        pageTask[p].pc # "render" =>
            LET ctx == pageTask[p].html IN
            /\ (ctx.prevPage = Null) <=> (p = 1)
            /\ (ctx.nextPage = Null) <=> (p = totalPages)
            /\ ctx.currentPage = p
            /\ ctx.totalPages = totalPages
            /\ totalPages = Len(pageTask)

\* C6 witness: a first, a middle and a last page have been rendered
C6_Witness ==
    /\ Len(pageTask) >= 3
    /\ \A p \in 1..Len(pageTask) : pageTask[p].pc = "done"
    /\ pageTask[2].html.prevPage # Null
    /\ pageTask[2].html.nextPage # Null

IndexHtmlPath == OutputDir \o <<"/", "i", "n", "d", "e", "x">> \o ExtHtml

NumberedIndexPath(n) ==
    OutputDir \o <<"/", "i", "n", "d", "e", "x", "-">> \o NumStr(n) \o ExtHtml

\* C7: when the index stage is over, the index page files written are
\* exactly index.html for page 1 and index-N.html for 2 <= N <= totalPages,
\* each written once, under every interleaving of the page tasks; page 1 is
\* never written under another name.
C7_IndexFileNames ==
    LET ix == WritesOf("index") IN
    /\ \A k \in 1..Len(ix) :
            (ix[k].html.currentPage = 1) <=> (ix[k].path = IndexHtmlPath)
    /\ (RunOver /\ reported) =>
        /\ Len(ix) = totalPages
        /\ totalPages >= 1 => Count(ix, LAMBDA w : w.path = IndexHtmlPath) = 1
        /\ \A n \in 2..totalPages :
                Count(ix, LAMBDA w : w.path = NumberedIndexPath(n)) = 1

\* C7 witness: three index pages, written in another order than their
\* page numbers
C7_Witness ==
    LET ix == WritesOf("index") IN
    /\ RunOver /\ reported
    /\ totalPages >= 3
    /\ \E i, j \in 1..Len(ix) :
            i < j /\ ix[i].html.currentPage > ix[j].html.currentPage

-----------------------------------------------------------------------------
(* part_004: the concurrent pipeline, output named after the title         *)

MaxConcurrent == 2

HelloWorld == <<"H", "e", "l", "l", "o", " ", "W", "o", "r", "l", "d">>

NoSlug == <<>>

CustomSlug == <<"c", "u", "s", "t", "o", "m">>

\* the posts directory of the title-named variants: Markdown files with an
\* optional title and an optional slug in their front matter
P4EntriesAt(i) ==
    {[file |-> BaseName(i) \o ExtMd, title |-> t, slug |-> g] :
        t \in {NoTitle, HelloWorld}, g \in {NoSlug, CustomSlug}}

RECURSIVE P4Listings(_)
P4Listings(n) ==
    IF n = 0 THEN {<<>>}
    ELSE {Append(l, e) : l \in P4Listings(n - 1), e \in P4EntriesAt(n)}

\* const title = data.title || file.replace('.md', '')
PostTitle(data, file) ==
    IF data.title # <<>> THEN data.title ELSE ReplaceFirst(file, ExtMd, <<>>)

\* const slug = data.slug || title.replace(/\s+/g, '-').toLowerCase()
PostSlug(data, title) ==
    IF data.slug # <<>> THEN data.slug ELSE TitleSlug(title)

P4OutputDir == <<"p", "u", "b", "l", "i", "c">>

P4Init ==
    /\ pc = "start"
    /\ contentDir \in UNION {P4Listings(n) : n \in 0..MaxConcurrent}
    /\ markdownFiles = <<>>
    /\ posts = <<>>
    /\ written = <<>>
    /\ fileTask = <<>>
    /\ tagData = <<>>
    /\ readCall = <<>>
    /\ partialsConfig = AsCommitted
    /\ reported = FALSE
    /\ caught = FALSE
    /\ postsPerPage = PostsPerPageDefault
    /\ idx = 1
    /\ skippedEntries = <<>>
    /\ postSlices = <<>>
    /\ totalPages = 0
    /\ pageTask = <<>>
    /\ variant = "none"
    /\ tplIn = <<>>
    /\ ctxIn = <<>>
    /\ template = <<>>
    /\ context = <<>>
    /\ partialCache = <<>>
    /\ partialsDir = <<>>
    /\ ExtractIdle
    /\ SlugIdle

\* what the concurrent pipeline of part_004 never touches
notP4Vars == <<postsPerPage, idx, skippedEntries, postSlices, totalPages,
               pageTask, caught, renderVars, extractVars,
               slugVars, tagData, readCall, partialsConfig>>

\* processContent: list the .md files and start one task per file; each
\* task runs to its first await (fs.readFile)
P4Start ==
    /\ pc = "start"
    /\ markdownFiles' = SelectSeq([k \in 1..Len(contentDir) |-> contentDir[k].file],
                                  LAMBDA f : EndsWith(f, ExtMd))
    /\ fileTask' = [k \in 1..Len(markdownFiles') |->
                        [pc |-> "read", title |-> <<>>, url |-> <<>>]]
    /\ pc' = "tasks"
    /\ UNCHANGED <<contentDir, posts, written, reported>>
    /\ UNCHANGED notP4Vars

\* a task, after fs.readFile: parse, title, slug, marked, and the call of
\* generateSingleHTML; an exception ends the task in its catch block
P4Read(i) ==
    /\ pc = "tasks"
    /\ fileTask[i].pc = "read"
    /\ \E outcome \in {"ok", "readError", "parseError"} :
        IF outcome = "ok"
        THEN LET data  == contentDir[FrontMatter(markdownFiles[i])]
                 title == PostTitle(data, markdownFiles[i])
                 slug  == PostSlug(data, title)
             IN fileTask' = [fileTask EXCEPT ![i] =
                    [pc |-> "render", title |-> title, url |-> slug \o ExtHtml]]
        ELSE fileTask' = [fileTask EXCEPT ![i].pc = "caught"]
    /\ UNCHANGED <<pc, contentDir, markdownFiles, posts, written, reported>>
    /\ UNCHANGED notP4Vars

\* a task, after generateSingleHTML: the call of fs.writeFile
P4Render(i) ==
    /\ pc = "tasks"
    /\ fileTask[i].pc = "render"
    /\ \E outcome \in {"ok", "renderError"} :
        fileTask' = [fileTask EXCEPT ![i].pc =
                        IF outcome = "ok" THEN "write" ELSE "caught"]
    /\ UNCHANGED <<pc, contentDir, markdownFiles, posts, written, reported>>
    /\ UNCHANGED notP4Vars

\* fs.writeFile(`${outputDir}/${postURL}`, html) of a task takes effect
P4Write(i) ==
    /\ pc = "tasks"
    /\ fileTask[i].pc = "write"
    /\ \E outcome \in {"ok", "writeError"} :
        IF outcome = "ok"
        THEN /\ written' = Append(written,
                    [path |-> P4OutputDir \o <<"/">> \o fileTask[i].url,
                     kind |-> "post",
                     html |-> [layout |-> "single", title |-> fileTask[i].title],
                     file |-> markdownFiles[i]])
             /\ fileTask' = [fileTask EXCEPT ![i].pc = "push"]
        ELSE /\ fileTask' = [fileTask EXCEPT ![i].pc = "caught"]
             /\ UNCHANGED written
    /\ UNCHANGED <<pc, contentDir, markdownFiles, posts, reported>>
    /\ UNCHANGED notP4Vars

\* a task, after fs.writeFile: posts.push({ title, url: postURL })
P4Push(i) ==
    /\ pc = "tasks"
    /\ fileTask[i].pc = "push"
    /\ posts' = Append(posts, [title |-> fileTask[i].title, url |-> fileTask[i].url])
    /\ fileTask' = [fileTask EXCEPT ![i].pc = "done"]
    /\ UNCHANGED <<pc, contentDir, markdownFiles, written, reported>>
    /\ UNCHANGED notP4Vars

\* P4Index without the barrier: the index page generated while tasks are
\* still running
P4IndexNoBarrier ==
    /\ pc = "tasks"
    /\ written' = Append(written,
            [path |-> P4OutputDir \o <<"/", "i", "n", "d", "e", "x">> \o ExtHtml,
             kind |-> "index",
             html |-> [layout |-> "index", posts |-> posts],
             file |-> <<>>])
    /\ reported' = TRUE
    /\ pc' = "done"
    /\ UNCHANGED <<contentDir, markdownFiles, posts, fileTask>>
    /\ UNCHANGED notP4Vars

\* processContent, after await Promise.all(postPromises): the index page
\* and the end of the build
P4Index ==
    /\ pc = "tasks"
    /\ \A i \in 1..Len(fileTask) : fileTask[i].pc \in {"done", "caught"}
    /\ written' = Append(written,
            [path |-> P4OutputDir \o <<"/", "i", "n", "d", "e", "x">> \o ExtHtml,
             kind |-> "index",
             html |-> [layout |-> "index", posts |-> posts],
             file |-> <<>>])
    /\ reported' = TRUE
    /\ pc' = "done"
    /\ UNCHANGED <<contentDir, markdownFiles, posts, fileTask>>
    /\ UNCHANGED notP4Vars

P4Next ==
    \/ P4Start
    \/ \E i \in 1..Len(fileTask) : P4Read(i)
    \/ \E i \in 1..Len(fileTask) : P4Render(i)
    \/ \E i \in 1..Len(fileTask) : P4Write(i)
    \/ \E i \in 1..Len(fileTask) : P4Push(i)
    \/ P4Index

SpecConcurrent == P4Init /\ [][P4Next]_vars

\* C3: two Markdown files with the same title and no slug field never write
\* to the same output file, and for two posts titled "Hello World" the
\* outputs are hello-world.html and hello-world-1.html, in writing order.
C3_SameTitleDistinctOutput ==
    \A i, j \in 1..Len(written) :
        LET a == written[i]
            b == written[j]
        IN (/\ i < j
            /\ a.kind = "post" /\ b.kind = "post"
            /\ contentDir[FrontMatter(a.file)].slug = NoSlug
            /\ contentDir[FrontMatter(b.file)].slug = NoSlug
            /\ contentDir[FrontMatter(a.file)].title = HelloWorld
            /\ contentDir[FrontMatter(b.file)].title = HelloWorld)
           => /\ a.path # b.path
              /\ a.path = P4OutputDir \o <<"/">>
                    \o <<"h", "e", "l", "l", "o", "-", "w", "o", "r", "l", "d">>
                    \o ExtHtml
              /\ b.path = P4OutputDir \o <<"/">>
                    \o <<"h", "e", "l", "l", "o", "-", "w", "o", "r", "l", "d", "-", "1">>
                    \o ExtHtml

-----------------------------------------------------------------------------
(* renderTemplate: templates, contexts and JavaScript values               *)
(*                                                                         *)
(* A template is a sequence of tokens <<kind, name>>: a piece of text      *)
(* without braces, or one marker of the placeholder syntax.  The regular   *)
(* expressions of renderTemplate match markers, so they are computed on    *)
(* the tokens.                                                             *)

Text(s)       == <<"text", s>>
VarTok(n)     == <<"var", n>>
PartialTok(n) == <<"partial", n>>
EachTok(n)    == <<"each", n>>
EndEach       == <<"endeach", "">>
IfTok(n)      == <<"if", n>>
EndIf         == <<"endif", "">>

\* JavaScript values of a context: strings (themselves token sequences),
\* numbers, booleans, arrays of objects; an absent key is undefined
Str(toks)  == [k |-> "str", v |-> toks]
Num(n)     == [k |-> "num", v |-> n]
Bool(b)    == [k |-> "bool", v |-> b]
Arr(items) == [k |-> "arr", v |-> items]
JsNull     == [k |-> "null", v |-> <<>>]

\* ToBoolean(context[key])
Truthy(ctx, key) ==
    /\ key \in DOMAIN ctx
    /\ LET val == ctx[key] IN
        CASE val.k = "str"  -> val.v # <<>>
          [] val.k = "num"  -> val.v # 0
          [] val.k = "bool" -> val.v
          [] val.k = "arr"  -> TRUE
          [] OTHER          -> FALSE

\* Array.isArray(context[key])
IsArray(ctx, key) == key \in DOMAIN ctx /\ ctx[key].k = "arr"

ObjectObject == <<Text("[object Object]")>>

RECURSIVE JoinComma(_)
JoinComma(n) ==
    IF n = 0 THEN <<>>
    ELSE IF n = 1 THEN ObjectObject
    ELSE JoinComma(n - 1) \o <<Text(",")>> \o ObjectObject

\* ToString of a value: what String.prototype.replace makes of a
\* replacement that is not a string
ToStringJs(val) ==
    CASE val.k = "str"  -> val.v
      [] val.k = "num"  -> [i \in 1..Len(NumStr(val.v)) |-> Text(NumStr(val.v)[i])]
      [] val.k = "bool" -> IF val.v THEN <<Text("true")>> ELSE <<Text("false")>>
      [] val.k = "arr"  -> JoinComma(Len(val.v))
      [] OTHER          -> <<Text("null")>>

\* context[key] || ''
OrEmpty(ctx, key) ==
    IF Truthy(ctx, key) THEN ToStringJs(ctx[key]) ELSE <<>>

\* { ...context, ...item }
Merge(ctx, item) ==
    [key \in DOMAIN ctx \cup DOMAIN item |->
        IF key \in DOMAIN item THEN item[key] ELSE ctx[key]]

\* new Date().getFullYear()
CurrentYear == Num(2026)

\* context.currentYear = new Date().getFullYear()
WithCurrentYear(ctx) ==
    [key \in DOMAIN ctx \cup {"currentYear"} |->
        IF key = "currentYear" THEN CurrentYear ELSE ctx[key]]

\* the $ patterns of a replacement string given to String.prototype.replace
RECURSIVE ExpandDollar(_, _, _, _)
ExpandDollar(rep, matched, before, after) ==
    IF rep = <<>> THEN <<>>
    ELSE (CASE Head(rep) = Text("$&") -> matched
            [] Head(rep) = Text("$$") -> <<Text("$")>>
            [] Head(rep) = Text("$`") -> before
            [] Head(rep) = Text("$'") -> after
            [] OTHER                  -> <<Head(rep)>>)
         \o ExpandDollar(Tail(rep), matched, before, after)

\* template.replace(fullMatch, rep): the first occurrence of the string
\* fullMatch, rep read as a replacement pattern
ReplaceStr(t, fullMatch, rep) ==
    LET k == IndexOf(t, fullMatch) IN
    IF k = 0 THEN t
    ELSE LET before == SubSeq(t, 1, k - 1)
             after  == SubSeq(t, k + Len(fullMatch), Len(t))
         IN before \o ExpandDollar(rep, fullMatch, before, after) \o after

\* [...template.matchAll(/{{>\s*([\w]+)\s*}}/g)] and
\* [...template.matchAll(/{{\s*([\w]+)\s*}}/g)]: the markers of one kind
MarkerMatches(t, kind) ==
    LET at == SelectSeq([i \in 1..Len(t) |-> i], LAMBDA i : t[i][1] = kind)
    IN [m \in 1..Len(at) |->
            [from |-> at[m], to |-> at[m], full |-> <<t[at[m]]>>,
             name |-> t[at[m]][2], inner |-> <<>>]]

\* [...template.matchAll(/{{#each\s+([\w]+)}}([\s\S]*?){{\/each}}/g)] and the
\* same for #if: from an opening marker to the first closing marker after
\* it, then on from behind the match
RECURSIVE BlockMatchesFrom(_, _, _, _)
BlockMatchesFrom(t, open, close, i) ==
    IF i > Len(t) THEN <<>>
    ELSE IF t[i][1] = open /\ \E j \in (i + 1)..Len(t) : t[j][1] = close
    THEN LET j == CHOOSE j \in (i + 1)..Len(t) :
                    /\ t[j][1] = close
                    /\ \A m \in (i + 1)..(j - 1) : t[m][1] # close
         IN <<[from |-> i, to |-> j, full |-> SubSeq(t, i, j),
               name |-> t[i][2], inner |-> SubSeq(t, i + 1, j - 1)]>>
            \o BlockMatchesFrom(t, open, close, j + 1)
    ELSE BlockMatchesFrom(t, open, close, i + 1)

BlockMatches(t, open, close) == BlockMatchesFrom(t, open, close, 1)

-----------------------------------------------------------------------------
(* ssg.js (second program): readFile and renderTemplate                    *)

\* readFile(partialsDir, name) after `partialCache[name] ||`: the text
\* returned and the cache afterwards
ReadPartial(cache, disk, name) ==
    IF name \in DOMAIN cache /\ cache[name] # <<>>
    THEN [text |-> cache[name], cache |-> cache]
    ELSE IF name \in DOMAIN disk
    THEN [text |-> disk[name],
          cache |-> [n \in DOMAIN cache \cup {name} |->
                        IF n = name THEN disk[name] ELSE cache[n]]]
    ELSE [text |-> <<>>, cache |-> cache]

\* the partial pass: one match after the other, on the template as changed
\* so far
RECURSIVE SsgPartialLoop(_, _, _, _)
SsgPartialLoop(matches, t, cache, disk) ==
    IF matches = <<>> THEN [t |-> t, cache |-> cache]
    ELSE LET m == Head(matches)
             r == ReadPartial(cache, disk, m.name)
         IN SsgPartialLoop(Tail(matches),
                IF r.text # <<>> THEN ReplaceStr(t, m.full, r.text) ELSE t,
                r.cache, disk)

SsgPartialPass(t, cache, disk) ==
    SsgPartialLoop(MarkerMatches(t, "partial"), t, cache, disk)

\* the conditional pass
RECURSIVE SsgCondLoop(_, _, _)
SsgCondLoop(matches, t, ctx) ==
    IF matches = <<>> THEN t
    ELSE LET m == Head(matches)
         IN SsgCondLoop(Tail(matches),
                ReplaceStr(t, m.full,
                    IF Truthy(ctx, m.name) THEN m.inner ELSE <<>>),
                ctx)

SsgCondPass(t, ctx) == SsgCondLoop(BlockMatches(t, "if", "endif"), t, ctx)

\* the variable pass
RECURSIVE SsgVarLoop(_, _, _)
SsgVarLoop(matches, t, ctx) ==
    IF matches = <<>> THEN t
    ELSE LET m == Head(matches)
         IN SsgVarLoop(Tail(matches),
                ReplaceStr(t, m.full, OrEmpty(ctx, m.name)), ctx)

SsgVarPass(t, ctx) == SsgVarLoop(MarkerMatches(t, "var"), t, ctx)

RECURSIVE SsgRender(_, _, _, _)
RECURSIVE SsgLoopLoop(_, _, _, _, _)
RECURSIVE SsgRenderItems(_, _, _, _, _)

\* items.map(item => renderTemplate(innerTemplate, { ...context, ...item }))
\* joined: the rendered items and the cache afterwards
SsgRenderItems(items, inner, ctx, cache, disk) ==
    IF items = <<>> THEN [t |-> <<>>, cache |-> cache]
    ELSE LET first == SsgRender(inner, Merge(ctx, Head(items)), cache, disk)
             rest  == SsgRenderItems(Tail(items), inner, ctx, first.cache, disk)
         IN [t |-> first.t \o rest.t, cache |-> rest.cache]

\* the loop pass
SsgLoopLoop(matches, t, ctx, cache, disk) ==
    IF matches = <<>> THEN [t |-> t, cache |-> cache]
    ELSE LET m == Head(matches)
         IN IF IsArray(ctx, m.name)
            THEN LET r == SsgRenderItems(ctx[m.name].v, m.inner, ctx,
                                         cache, disk)
                 IN SsgLoopLoop(Tail(matches), ReplaceStr(t, m.full, r.t),
                                ctx, r.cache, disk)
            ELSE SsgLoopLoop(Tail(matches), ReplaceStr(t, m.full, <<>>),
                             ctx, cache, disk)

SsgLoopPass(t, ctx, cache, disk) ==
    SsgLoopLoop(BlockMatches(t, "each", "endeach"), t, ctx, cache, disk)

\* renderTemplate(template, context) of a recursive call: the string it
\* resolves to and the cache afterwards
SsgRender(t, ctx, cache, disk) ==
    IF t = <<>> THEN [t |-> <<>>, cache |-> cache]
    ELSE LET own == WithCurrentYear(ctx)
             p   == SsgPartialPass(t, cache, disk)
             l   == SsgLoopPass(p.t, own, p.cache, disk)
         IN [t |-> SsgVarPass(SsgCondPass(l.t, own), own), cache |-> l.cache]

-----------------------------------------------------------------------------
(* index.js: renderTemplate, with replace(regex, callback)                 *)

\* template.replace(regex, callback): the k-th match is replaced by what the
\* callback returns for it, reps[k]
RECURSIVE ReplaceMatches(_, _, _, _)
ReplaceMatches(t, matches, reps, i) ==
    IF matches = <<>> THEN SubSeq(t, i, Len(t))
    ELSE LET m == Head(matches)
         IN SubSeq(t, i, m.from - 1) \o Head(reps)
            \o ReplaceMatches(t, Tail(matches), Tail(reps), m.to + 1)

ObjectPromise == <<Text("[object Promise]")>>

RECURSIVE Repeat(_, _)
Repeat(s, n) == IF n = 0 THEN <<>> ELSE s \o Repeat(s, n - 1)

\* items.map(item => renderTemplate(...)).join(''): renderTemplate is an
\* async function, so the array holds promises and join() writes each one
\* as [object Promise]
IxEachCallback(ctx, m) ==
    IF ~IsArray(ctx, m.name) THEN <<>>
    ELSE Repeat(ObjectPromise, Len(ctx[m.name].v))

\* the partial pass: partials[partialName] || ''
IxPartialPass(t, partials) ==
    LET ms == MarkerMatches(t, "partial")
    IN ReplaceMatches(t, ms,
           [k \in 1..Len(ms) |-> IF ms[k].name \in DOMAIN partials
                                 THEN partials[ms[k].name] ELSE <<>>], 1)

\* the loop pass
IxLoopPass(t, ctx) ==
    LET ms == BlockMatches(t, "each", "endeach")
    IN ReplaceMatches(t, ms,
           [k \in 1..Len(ms) |-> IxEachCallback(ctx, ms[k])], 1)

\* the conditional pass
IxCondPass(t, ctx) ==
    LET ms == BlockMatches(t, "if", "endif")
    IN ReplaceMatches(t, ms,
           [k \in 1..Len(ms) |-> IF Truthy(ctx, ms[k].name)
                                 THEN ms[k].inner ELSE <<>>], 1)

\* the variable pass
IxVarPass(t, ctx) ==
    LET ms == MarkerMatches(t, "var")
    IN ReplaceMatches(t, ms,
           [k \in 1..Len(ms) |-> OrEmpty(ctx, ms[k].name)], 1)

\* the string an index.js renderTemplate call resolves to
IxRender(t, ctx, partials) ==
    IxVarPass(IxCondPass(IxLoopPass(IxPartialPass(t, partials), ctx),
                         ctx), ctx)

-----------------------------------------------------------------------------
(* One call of renderTemplate, pass by pass                                *)

MaxSegments == 2

NavText == <<Text("n"), VarTok("x")>>

\* the pieces the templates are made of
Segments ==
    { <<Text("a")>>,
      <<VarTok("x")>>,
      <<PartialTok("nav")>>,
      <<EachTok("xs"), Text("b"), VarTok("x"), EndEach>>,
      <<IfTok("x"), Text("c"), EndIf>> }

RECURSIVE TemplatesOf(_)
TemplatesOf(n) ==
    IF n = 0 THEN {<<>>}
    ELSE {t \o g : t \in TemplatesOf(n - 1), g \in Segments}

Templates == UNION {TemplatesOf(n) : n \in 0..MaxSegments}

EmptyObject == [key \in {} |-> JsNull]

ItemI == [key \in {"x"} |-> Str(<<Text("i")>>)]

\* the values of the keys x and xs; Missing stands for an absent key
Missing == [k |-> "undefined", v |-> <<>>]

ValuesOfX == {Missing, Str(<<Text("v")>>), Num(0), Bool(FALSE)}

ValuesOfXs == {Missing, Str(<<Text("v")>>), Arr(<<>>), Arr(<<ItemI>>),
               Arr(<<ItemI, EmptyObject>>)}

ContextOf(x, xs) ==
    [key \in (IF x = Missing THEN {} ELSE {"x"})
              \cup (IF xs = Missing THEN {} ELSE {"xs"}) |->
        IF key = "x" THEN x ELSE xs]

Contexts == {ContextOf(x, xs) : x \in ValuesOfX, xs \in ValuesOfXs}

NoPartials == [n \in {} |-> <<>>]

NavOnly == [n \in {"nav"} |-> NavText]

RenderInit ==
    /\ pc = "call"
    /\ variant \in {"ssg", "index"}
    /\ tplIn \in Templates
    /\ ctxIn \in Contexts
    /\ template = tplIn
    /\ context = ctxIn
    /\ partialCache \in {NoPartials, NavOnly}
    /\ partialsDir \in IF variant = "ssg" THEN {NoPartials, NavOnly}
                                            ELSE {NoPartials}
    /\ postsPerPage = PostsPerPageDefault
    /\ contentDir = <<>>
    /\ markdownFiles = <<>>
    /\ idx = 1
    /\ posts = <<>>
    /\ skippedEntries = <<>>
    /\ written = <<>>
    /\ postSlices = <<>>
    /\ totalPages = 0
    /\ pageTask = <<>>
    /\ reported = FALSE
    /\ caught = FALSE
    /\ fileTask = <<>>
    /\ tagData = <<>>
    /\ readCall = <<>>
    /\ partialsConfig = AsCommitted
    /\ ExtractIdle
    /\ SlugIdle

\* ssg.js renderTemplate: if (!template) return ''; context.currentYear = ...
SsgRenderCall ==
    /\ pc = "call"
    /\ variant = "ssg"
    /\ IF template = <<>>
       THEN pc' = "done" /\ UNCHANGED context
       ELSE pc' = "partials" /\ context' = WithCurrentYear(context)
    /\ UNCHANGED <<variant, tplIn, ctxIn, template, partialCache, partialsDir>>
    /\ UNCHANGED pipelineVars

\* ssg.js renderTemplate: // Render partials
SsgPartials ==
    /\ pc = "partials"
    /\ variant = "ssg"
    /\ LET r == SsgPartialPass(template, partialCache, partialsDir)
       IN template' = r.t /\ partialCache' = r.cache
    /\ pc' = "loops"
    /\ UNCHANGED <<variant, tplIn, ctxIn, context, partialsDir>>
    /\ UNCHANGED pipelineVars

\* ssg.js renderTemplate: // Render loops
SsgLoops ==
    /\ pc = "loops"
    /\ variant = "ssg"
    /\ LET r == SsgLoopPass(template, context, partialCache, partialsDir)
       IN template' = r.t /\ partialCache' = r.cache
    /\ pc' = "conditionals"
    /\ UNCHANGED <<variant, tplIn, ctxIn, context, partialsDir>>
    /\ UNCHANGED pipelineVars

\* ssg.js renderTemplate: // Render conditionals
SsgConditionals ==
    /\ pc = "conditionals"
    /\ variant = "ssg"
    /\ template' = SsgCondPass(template, context)
    /\ pc' = "variables"
    /\ UNCHANGED <<variant, tplIn, ctxIn, context, partialCache, partialsDir>>
    /\ UNCHANGED pipelineVars

\* ssg.js renderTemplate: // Render variables, return template
SsgVariables ==
    /\ pc = "variables"
    /\ variant = "ssg"
    /\ template' = SsgVarPass(template, context)
    /\ pc' = "done"
    /\ UNCHANGED <<variant, tplIn, ctxIn, context, partialCache, partialsDir>>
    /\ UNCHANGED pipelineVars

\* index.js renderTemplate: partials
IxPartials ==
    /\ pc = "call"
    /\ variant = "index"
    /\ template' = IxPartialPass(template, partialCache)
    /\ pc' = "loops"
    /\ UNCHANGED <<variant, tplIn, ctxIn, context, partialCache, partialsDir>>
    /\ UNCHANGED pipelineVars

\* index.js renderTemplate: loops
IxLoops ==
    /\ pc = "loops"
    /\ variant = "index"
    /\ template' = IxLoopPass(template, context)
    /\ pc' = "conditionals"
    /\ UNCHANGED <<variant, tplIn, ctxIn, context, partialCache, partialsDir>>
    /\ UNCHANGED pipelineVars

\* index.js renderTemplate: conditionals
IxConditionals ==
    /\ pc = "conditionals"
    /\ variant = "index"
    /\ template' = IxCondPass(template, context)
    /\ pc' = "variables"
    /\ UNCHANGED <<variant, tplIn, ctxIn, context, partialCache, partialsDir>>
    /\ UNCHANGED pipelineVars

\* index.js renderTemplate: variables, return template
IxVariables ==
    /\ pc = "variables"
    /\ variant = "index"
    /\ template' = IxVarPass(template, context)
    /\ pc' = "done"
    /\ UNCHANGED <<variant, tplIn, ctxIn, context, partialCache, partialsDir>>
    /\ UNCHANGED pipelineVars

RenderNext ==
    \/ SsgRenderCall
    \/ SsgPartials
    \/ SsgLoops
    \/ SsgConditionals
    \/ SsgVariables
    \/ IxPartials
    \/ IxLoops
    \/ IxConditionals
    \/ IxVariables

SpecRender == RenderInit /\ [][RenderNext]_vars

-----------------------------------------------------------------------------
(* Properties of renderTemplate                                            *)

Returned == pc = "done"

KindsOf(t) == {t[i][1] : i \in 1..Len(t)}

\* the text of the partial `name`, in the cache or on disk, if any
PartialKnown(name) ==
    \/ name \in DOMAIN partialCache /\ partialCache[name] # <<>>
    \/ name \in DOMAIN partialsDir /\ partialsDir[name] # <<>>

\* the template is text around exactly one {{#each}} block whose body is
\* text and variables
OneLoopBlock(t) ==
    /\ Len(BlockMatches(t, "each", "endeach")) = 1
    /\ LET m == BlockMatches(t, "each", "endeach")[1] IN
        /\ KindsOf(SubSeq(t, 1, m.from - 1)) \subseteq {"text"}
        /\ KindsOf(SubSeq(t, m.to + 1, Len(t))) \subseteq {"text"}
        /\ KindsOf(m.inner) \subseteq {"text", "var"}

\* the body rendered against the context merged with the item, by the
\* renderTemplate of the variant
RenderedBody(inner, item) ==
    IF variant = "ssg"
    THEN SsgRender(inner, Merge(ctxIn, item), partialCache, partialsDir).t
    ELSE IxRender(inner, Merge(ctxIn, item), partialCache)

RECURSIVE RenderedItems(_, _)
RenderedItems(inner, items) ==
    IF items = <<>> THEN <<>>
    ELSE RenderedBody(inner, Head(items)) \o RenderedItems(inner, Tail(items))

\* C8: an {{#each collection}}...{{/each}} block is replaced by the
\* concatenation, in item order, of the body rendered once per item against
\* the context merged with that item, when context[collection] is an array;
\* by the empty string when it is missing or not an array (ssg.js and
\* index.js).
C8_LoopSubstitution ==
    (Returned /\ OneLoopBlock(tplIn)) =>
        LET m == BlockMatches(tplIn, "each", "endeach")[1]
            items == IF IsArray(ctxIn, m.name) THEN ctxIn[m.name].v ELSE <<>>
        IN template = SubSeq(tplIn, 1, m.from - 1)
                      \o RenderedItems(m.inner, items)
                      \o SubSeq(tplIn, m.to + 1, Len(tplIn))

\* String(value)
StringForm(val) == ToStringJs(val)

RECURSIVE Substituted(_, _)
Substituted(t, ctx) ==
    IF t = <<>> THEN <<>>
    ELSE (IF Head(t)[1] # "var" THEN <<Head(t)>>
          ELSE IF Head(t)[2] \in DOMAIN ctx THEN StringForm(ctx[Head(t)[2]])
          ELSE <<>>)
         \o Substituted(Tail(t), ctx)

\* C9: every {{ name }} placeholder is replaced by the string form of
\* context[name] whenever that is defined (0 and false included), by the
\* empty string only when it is undefined, and no placeholder is left in
\* the output (ssg.js).
C9_VariableSubstitution ==
    (Returned /\ variant = "ssg" /\ KindsOf(tplIn) \subseteq {"text", "var"}) =>
        /\ template = Substituted(tplIn, ctxIn)
        /\ "var" \notin KindsOf(template)

\* C10: a partial marker whose partial is neither in the cache nor on disk
\* is replaced by the empty string: no such marker is left in the output
\* (ssg.js).
C10_MissingPartialOmitted ==
    (Returned /\ variant = "ssg") =>
        \A i \in 1..Len(template) :
            template[i][1] = "partial" => PartialKnown(template[i][2])

-----------------------------------------------------------------------------
(* dataExtractor.js: extractDataFromSources, one concurrent task per source *)

MaxSources == 3

\* config.csv.include followed by config.json.include: the CSV sources come
\* first in the array given to Promise.all
SourceKinds(n) ==
    {ks \in [1..n -> {"csv", "json"}] :
        \A i, j \in 1..n : (i < j /\ ks[i] = "json") => ks[j] = "json"}

\* a source whose processDataSource task has not been created
NewSource(kind) == [type |-> kind, st |-> "new", fetches |-> 0, body |-> "none"]

ExtractInit ==
    /\ pc = "extract"
    /\ \E n \in 0..MaxSources : \E ks \in SourceKinds(n) :
          sources = [i \in 1..n |-> NewSource(ks[i])]
    /\ extractor = "idle"
    /\ mdWritten = {}
    /\ dataIdx = 1
    /\ pipelineStarted = FALSE
    /\ postsPerPage = PostsPerPageDefault
    /\ contentDir = <<>>
    /\ markdownFiles = <<>>
    /\ idx = 1
    /\ posts = <<>>
    /\ skippedEntries = <<>>
    /\ written = <<>>
    /\ postSlices = <<>>
    /\ totalPages = 0
    /\ pageTask = <<>>
    /\ reported = FALSE
    /\ caught = FALSE
    /\ fileTask = <<>>
    /\ tagData = <<>>
    /\ readCall = <<>>
    /\ partialsConfig = AsCommitted
    /\ variant = "none"
    /\ tplIn = <<>>
    /\ ctxIn = <<>>
    /\ template = <<>>
    /\ context = <<>>
    /\ partialCache = <<>>
    /\ partialsDir = <<>>
    /\ SlugIdle

\* what the data extractor never touches
notExtractVars == <<pc, postsPerPage, contentDir, markdownFiles, idx, posts,
                    skippedEntries, written, postSlices, totalPages, pageTask,
                    reported, caught, fileTask, renderVars, slugVars,
                    tagData, readCall, partialsConfig>>

\* the task of source i moves to state s
TaskTo(i, s) == sources' = [sources EXCEPT ![i].st = s]

\* extractDataFromSources: ensureDir succeeded; the two map() calls create
\* every processDataSource task, and each runs to its axios.get
ExStart ==
    /\ extractor = "idle"
    /\ extractor' = "running"
    /\ sources' = [i \in DOMAIN sources |->
                     [sources[i] EXCEPT !.st = "fetching",
                                        !.fetches = sources[i].fetches + 1]]
    /\ UNCHANGED <<mdWritten, dataIdx, pipelineStarted>>
    /\ UNCHANGED notExtractVars

\* extractDataFromSources: ensureDir throws; the catch block logs it and the
\* function returns without creating a task
ExEnsureDirFails ==
    /\ extractor = "idle"
    /\ extractor' = "resolved"
    /\ UNCHANGED <<sources, mdWritten, dataIdx, pipelineStarted>>
    /\ UNCHANGED notExtractVars

\* fetchCsv / fetchJson: axios.get rejects; the error is rethrown and caught
\* by processDataSource, which logs it
ExFetchFails(i) ==
    /\ extractor = "running"
    /\ sources[i].st = "fetching"
    /\ TaskTo(i, "failed")
    /\ UNCHANGED <<extractor, mdWritten, dataIdx, pipelineStarted>>
    /\ UNCHANGED notExtractVars

\* fetchJson: axios.get resolves; response.data is an array of records, the
\* text of a body that is not JSON, or an object; for (const item of data)
\* throws a TypeError on an object, caught by processDataSource
ExFetchJson(i) ==
    /\ extractor = "running"
    /\ sources[i].st = "fetching"
    /\ sources[i].type = "json"
    /\ \E b \in {"records", "text", "object"} :
          sources' = [sources EXCEPT
                        ![i].body = b,
                        ![i].st = IF b = "object" THEN "failed"
                                                  ELSE "generating"]
    /\ UNCHANGED <<extractor, mdWritten, dataIdx, pipelineStarted>>
    /\ UNCHANGED notExtractVars

\* fetchCsv: axios.get resolves with the response stream, which is piped
\* into the csv parser
ExFetchCsv(i) ==
    /\ extractor = "running"
    /\ sources[i].st = "fetching"
    /\ sources[i].type = "csv"
    /\ TaskTo(i, "streaming")
    /\ UNCHANGED <<extractor, mdWritten, dataIdx, pipelineStarted>>
    /\ UNCHANGED notExtractVars

\* fetchCsv: the parser emits 'end': resolve(results)
ExStreamEnd(i) ==
    /\ extractor = "running"
    /\ sources[i].st = "streaming"
    /\ sources' = [sources EXCEPT ![i].st = "generating", ![i].body = "records"]
    /\ UNCHANGED <<extractor, mdWritten, dataIdx, pipelineStarted>>
    /\ UNCHANGED notExtractVars

\* fetchCsv: the parser emits 'error': reject(error), caught by
\* processDataSource
ExParserError(i) ==
    /\ extractor = "running"
    /\ sources[i].st = "streaming"
    /\ TaskTo(i, "failed")
    /\ UNCHANGED <<extractor, mdWritten, dataIdx, pipelineStarted>>
    /\ UNCHANGED notExtractVars

\* fetchCsv: the connection fails while the body is streamed.  The only
\* 'error' listener is on the parser, and pipe() forwards neither the error
\* nor an end: either response.data emits 'error' without a listener, an
\* uncaught exception that ends the process, or it emits none and the promise
\* of fetchCsv is never settled
ExResponseError(i) ==
    /\ extractor = "running"
    /\ sources[i].st = "streaming"
    /\ \/ extractor' = "crashed" /\ UNCHANGED sources
       \/ TaskTo(i, "pending") /\ UNCHANGED extractor
    /\ UNCHANGED <<mdWritten, dataIdx, pipelineStarted>>
    /\ UNCHANGED notExtractVars

\* generateMarkdownFromCsv / generateMarkdownFromJson: one Markdown file per
\* record (a failed write is caught per record)
ExGenerate(i) ==
    /\ extractor = "running"
    /\ sources[i].st = "generating"
    /\ TaskTo(i, "done")
    /\ mdWritten' = mdWritten \cup {i}
    /\ UNCHANGED <<extractor, dataIdx, pipelineStarted>>
    /\ UNCHANGED notExtractVars

\* extractDataFromSources: await Promise.all(...) resumes once every task
\* has settled
ExJoin ==
    /\ extractor = "running"
    /\ \A i \in DOMAIN sources : sources[i].st \in {"done", "failed"}
    /\ extractor' = "resolved"
    /\ UNCHANGED <<sources, mdWritten, dataIdx, pipelineStarted>>
    /\ UNCHANGED notExtractVars

\* ssg.js processContent: the statements after
\* await extractDataFromSources(config)
ExContinue ==
    /\ extractor = "resolved"
    /\ ~pipelineStarted
    /\ pipelineStarted' = TRUE
    /\ UNCHANGED <<sources, extractor, mdWritten, dataIdx>>
    /\ UNCHANGED notExtractVars

ExtractNext ==
    \/ ExStart
    \/ ExEnsureDirFails
    \/ \E i \in DOMAIN sources : ExFetchFails(i)
    \/ \E i \in DOMAIN sources : ExFetchJson(i)
    \/ \E i \in DOMAIN sources : ExFetchCsv(i)
    \/ \E i \in DOMAIN sources : ExStreamEnd(i)
    \/ \E i \in DOMAIN sources : ExParserError(i)
    \/ \E i \in DOMAIN sources : ExResponseError(i)
    \/ \E i \in DOMAIN sources : ExGenerate(i)
    \/ ExJoin
    \/ ExContinue

SpecExtract == ExtractInit /\ [][ExtractNext]_vars

\* C11: in dataExtractor.js a fetch or parse failure of one source leaves the
\* process running and the other tasks untouched, never makes
\* extractDataFromSources reject, never leaves it waiting for a task that can
\* not settle (so the pipeline behind the await still runs), and no source is
\* fetched twice
C11_SourceFailureIsolated ==
    /\ extractor \notin {"rejected", "crashed"}
    /\ \A i \in DOMAIN sources :
          /\ sources[i].fetches <= 1
          /\ sources[i].st # "pending"

-----------------------------------------------------------------------------
(* part_002: extractDataFromSources, the data files one after another      *)

\* what the data field of a data file names: a remote url, a local .json or
\* .csv file, or a local file of another type
DataKinds == {"remote", "json", "csv", "other"}

SeqInit ==
    /\ pc = "extract"
    /\ \E n \in 0..MaxSources : \E ks \in [1..n -> DataKinds] :
          sources = [i \in 1..n |-> NewSource(ks[i])]
    /\ extractor = "idle"
    /\ mdWritten = {}
    /\ dataIdx = 1
    /\ pipelineStarted = FALSE
    /\ postsPerPage = PostsPerPageDefault
    /\ contentDir = <<>>
    /\ markdownFiles = <<>>
    /\ idx = 1
    /\ posts = <<>>
    /\ skippedEntries = <<>>
    /\ written = <<>>
    /\ postSlices = <<>>
    /\ totalPages = 0
    /\ pageTask = <<>>
    /\ reported = FALSE
    /\ caught = FALSE
    /\ fileTask = <<>>
    /\ tagData = <<>>
    /\ readCall = <<>>
    /\ partialsConfig = AsCommitted
    /\ variant = "none"
    /\ tplIn = <<>>
    /\ ctxIn = <<>>
    /\ template = <<>>
    /\ context = <<>>
    /\ partialCache = <<>>
    /\ partialsDir = <<>>
    /\ SlugIdle

\* the loop is at data file i
AtSource(i) == extractor = "running" /\ dataIdx = i /\ i \in DOMAIN sources

\* an exception leaves the for loop: the one catch block of
\* extractDataFromSources logs it and the function returns
SqAbort(i) ==
    /\ sources' = [sources EXCEPT ![i].st = "failed"]
    /\ extractor' = "resolved"
    /\ UNCHANGED <<mdWritten, dataIdx>>

\* ensureDir and readdir succeeded: the loop starts
SqStart ==
    /\ extractor = "idle"
    /\ extractor' = "running"
    /\ dataIdx' = 1
    /\ UNCHANGED <<sources, mdWritten, pipelineStarted>>
    /\ UNCHANGED notExtractVars

\* ensureDir or readdir throws
SqStartFails ==
    /\ extractor = "idle"
    /\ extractor' = "resolved"
    /\ UNCHANGED <<sources, mdWritten, dataIdx, pipelineStarted>>
    /\ UNCHANGED notExtractVars

\* a local source of an unsupported type: console.warn and continue
SqUnsupportedLocal(i) ==
    /\ AtSource(i)
    /\ sources[i].st = "new"
    /\ sources[i].type = "other"
    /\ sources' = [sources EXCEPT ![i].st = "skipped"]
    /\ dataIdx' = i + 1
    /\ UNCHANGED <<extractor, mdWritten, pipelineStarted>>
    /\ UNCHANGED notExtractVars

\* rawData = await fetchDataFromUrl(dataSource): axios.get is called
SqFetch(i) ==
    /\ AtSource(i)
    /\ sources[i].st = "new"
    /\ sources[i].type = "remote"
    /\ sources' = [sources EXCEPT ![i].st = "fetching",
                                  ![i].fetches = sources[i].fetches + 1]
    /\ UNCHANGED <<extractor, mdWritten, dataIdx, pipelineStarted>>
    /\ UNCHANGED notExtractVars

\* fetchDataFromUrl settles: records; a rejected axios.get or a body that
\* JSON.parse or the csv parser rejects (logged and rethrown); or an
\* unsupported content type, for which it returns null, and
\* generateMarkdownFromData throws on for (const item of null)
SqFetched(i) ==
    /\ AtSource(i)
    /\ sources[i].st = "fetching"
    /\ \E b \in {"records", "fetchError", "parseError", "unsupported"} :
          IF b = "records"
          THEN /\ sources' = [sources EXCEPT ![i].st = "generating",
                                             ![i].body = b]
               /\ UNCHANGED <<extractor, mdWritten, dataIdx>>
          ELSE /\ sources' = [sources EXCEPT ![i].st = "failed", ![i].body = b]
               /\ extractor' = "resolved"
               /\ UNCHANGED <<mdWritten, dataIdx>>
    /\ UNCHANGED pipelineStarted
    /\ UNCHANGED notExtractVars

\* rawData = await fs.readJson(dataSourcePath): records, or an exception
SqReadJson(i) ==
    /\ AtSource(i)
    /\ sources[i].st = "new"
    /\ sources[i].type = "json"
    /\ \/ /\ sources' = [sources EXCEPT ![i].st = "generating",
                                        ![i].body = "records"]
          /\ UNCHANGED <<extractor, mdWritten, dataIdx>>
       \/ SqAbort(i)
    /\ UNCHANGED pipelineStarted
    /\ UNCHANGED notExtractVars

\* rawData = await readCsv(dataSourcePath): records; a parser error, which
\* rejects; or an error of the file stream (a missing file), which has no
\* 'error' listener: an uncaught exception that ends the process
SqReadCsv(i) ==
    /\ AtSource(i)
    /\ sources[i].st = "new"
    /\ sources[i].type = "csv"
    /\ \/ /\ sources' = [sources EXCEPT ![i].st = "generating",
                                        ![i].body = "records"]
          /\ UNCHANGED <<extractor, mdWritten, dataIdx>>
       \/ SqAbort(i)
       \/ /\ extractor' = "crashed"
          /\ sources' = [sources EXCEPT ![i].st = "failed"]
          /\ UNCHANGED <<mdWritten, dataIdx>>
    /\ UNCHANGED pipelineStarted
    /\ UNCHANGED notExtractVars

\* await generateMarkdownFromData(rawData, mappings, dataSource): one
\* Markdown file per record, then the next data file
SqGenerate(i) ==
    /\ AtSource(i)
    /\ sources[i].st = "generating"
    /\ sources' = [sources EXCEPT ![i].st = "done"]
    /\ mdWritten' = mdWritten \cup {i}
    /\ dataIdx' = i + 1
    /\ UNCHANGED <<extractor, pipelineStarted>>
    /\ UNCHANGED notExtractVars

\* the loop is over: extractDataFromSources returns
SqEnd ==
    /\ extractor = "running"
    /\ dataIdx > Len(sources)
    /\ extractor' = "resolved"
    /\ UNCHANGED <<sources, mdWritten, dataIdx, pipelineStarted>>
    /\ UNCHANGED notExtractVars

SeqNext ==
    \/ SqStart
    \/ SqStartFails
    \/ \E i \in DOMAIN sources : SqUnsupportedLocal(i)
    \/ \E i \in DOMAIN sources : SqFetch(i)
    \/ \E i \in DOMAIN sources : SqFetched(i)
    \/ \E i \in DOMAIN sources : SqReadJson(i)
    \/ \E i \in DOMAIN sources : SqReadCsv(i)
    \/ \E i \in DOMAIN sources : SqGenerate(i)
    \/ SqEnd

SpecExtractSeq == SeqInit /\ [][SeqNext]_vars

\* C12: in part_002, when extractDataFromSources has returned, every data
\* source that comes after a failed one has been dealt with all the same:
\* fetched or read, and its Markdown files written when it had records
C12_LaterSourcesProcessed ==
    extractor = "resolved" =>
        \A i, j \in DOMAIN sources :
            (i < j /\ sources[i].st = "failed") =>
                sources[j].st \in {"done", "failed", "skipped"}

-----------------------------------------------------------------------------
(* dataExtractor.js: sanitizeSlug and ensureUniqueSlug                     *)

\* no pipeline is running and no template is being rendered
PipelineIdle ==
    /\ postsPerPage = PostsPerPageDefault
    /\ contentDir = <<>>
    /\ markdownFiles = <<>>
    /\ idx = 1
    /\ posts = <<>>
    /\ skippedEntries = <<>>
    /\ written = <<>>
    /\ postSlices = <<>>
    /\ totalPages = 0
    /\ pageTask = <<>>
    /\ reported = FALSE
    /\ caught = FALSE
    /\ fileTask = <<>>
    /\ tagData = <<>>

RenderIdle ==
    /\ variant = "none"
    /\ tplIn = <<>>
    /\ ctxIn = <<>>
    /\ template = <<>>
    /\ context = <<>>
    /\ partialCache = <<>>
    /\ partialsDir = <<>>

\* the default arguments of sanitizeSlug
SlugMaxLength == 50

SlugSeparator == "-"

\* the default token 'post'
PostToken == <<"p", "o", "s", "t">>

\* String.prototype.trim: from the first to the last character that is not
\* white space
Trim(s) ==
    LET solid == {k \in 1..Len(s) : ~IsSpace(s[k])}
    IN IF solid = {} THEN <<>>
       ELSE SubSeq(s, CHOOSE k \in solid : \A j \in solid : k <= j,
                      CHOOSE k \in solid : \A j \in solid : j <= k)

\* the characters the class [a-z0-9\s-] accepts
IsSlugChar(c) ==
    \/ \E k \in 1..26 : LowerChars[k] = c
    \/ \E k \in 1..10 : DigitChars[k] = c
    \/ IsSpace(c)
    \/ c = "-"

\* slug.replace(/[^a-z0-9\s-]/g, '')
StripDisallowed(s) == SelectSeq(s, IsSlugChar)

\* slug.replace(/[\s-]+/g, separator): every maximal run of white space and
\* hyphens becomes one separator, put where the run ends
ReplaceSeparatorRuns(s, sep) ==
    LET InRun(k) == IsSpace(s[k]) \/ s[k] = "-"
        marked == [k \in 1..Len(s) |->
                      IF ~InRun(k) THEN s[k]
                      ELSE IF k < Len(s) /\ InRun(k + 1) THEN ""
                      ELSE sep]
    IN SelectSeq(marked, LAMBDA c : c # "")

\* a substring(0, n) without the length limit
Substring0Unlimited(s, n) == s

\* String.prototype.substring(0, n)
Substring0(s, n) == SubSeq(s, 1, IF n < Len(s) THEN n ELSE Len(s))

\* slug.replace(new RegExp(`^${separator}|${separator}$`, 'g'), ''): one
\* separator at the start and one at the end
TrimSeparator(s, sep) ==
    LET a == IF s # <<>> /\ Head(s) = sep THEN Tail(s) ELSE s
    IN IF a # <<>> /\ a[Len(a)] = sep THEN SubSeq(a, 1, Len(a) - 1) ELSE a

\* the same steps with the limit applied last
SlugBodyCutLast(input, maxLength, separator) ==
    Substring0(
        TrimSeparator(
            ReplaceSeparatorRuns(StripDisallowed(Trim(ToLowerCase(input))),
                                 separator),
            separator),
        maxLength)

\* what is left of the input before the fallback: the slug variable at the
\* return statement
SlugBody(input, maxLength, separator) ==
    TrimSeparator(
        Substring0(
            ReplaceSeparatorRuns(StripDisallowed(Trim(ToLowerCase(input))),
                                 separator),
            maxLength),
        separator)

\* sanitizeSlug(input, maxLength = 50, separator = '-')
SanitizeSlug(input, maxLength, separator) ==
    IF input = <<>> \/ input = Null THEN PostToken
    ELSE LET slug == SlugBody(input, maxLength, separator)
         IN IF slug = <<>> THEN PostToken ELSE slug

\* sanitizeSlug(input)
SanitizeSlugDefault(input) == SanitizeSlug(input, SlugMaxLength, SlugSeparator)


\* One call of sanitizeSlug, and a second call on its result

MaxSlugSegments == 4

\* 48 letters: with a few more characters the input passes maxLength
LongWord == [k \in 1..48 |-> "a"]

\* pieces the inputs are made of: letters, white space, hyphens, a character
\* the function strips, an upper-case letter and a digit
SlugSegments == {LongWord, <<" ">>, <<"-">>, <<"!">>, <<"B">>, <<"1">>}

RECURSIVE SlugInputsOf(_)
SlugInputsOf(n) ==
    IF n = 0 THEN {<<>>}
    ELSE LET shorter == SlugInputsOf(n - 1)
         IN shorter \cup {s \o g : s \in shorter, g \in SlugSegments}

SlugInputs == SlugInputsOf(MaxSlugSegments)

SlugInit ==
    /\ pc = "slug"
    /\ slugIn \in SlugInputs
    /\ slugOut = Null
    /\ slugAgain = Null
    /\ records = <<>>
    /\ recIdx = 1
    /\ existingSlugs = {}
    /\ recSlugs = <<>>
    /\ PipelineIdle
    /\ readCall = <<>>
    /\ partialsConfig = AsCommitted
    /\ RenderIdle
    /\ ExtractIdle

\* what the slug functions never touch
notSlugVars == <<postsPerPage, contentDir, markdownFiles, idx, posts,
                 skippedEntries, written, postSlices, totalPages, pageTask,
                 reported, caught, fileTask, renderVars, extractVars,
                 tagData, readCall, partialsConfig>>

\* slug = sanitizeSlug(input)
SlugCall ==
    /\ pc = "slug"
    /\ slugOut' = SanitizeSlugDefault(slugIn)
    /\ pc' = "returned"
    /\ UNCHANGED <<slugIn, slugAgain, records, recIdx, existingSlugs, recSlugs>>
    /\ UNCHANGED notSlugVars

\* sanitizeSlug(slug): the result sanitized once more
SlugCallAgain ==
    /\ pc = "returned"
    /\ slugAgain' = SanitizeSlugDefault(slugOut)
    /\ pc' = "again"
    /\ UNCHANGED <<slugIn, slugOut, records, recIdx, existingSlugs, recSlugs>>
    /\ UNCHANGED notSlugVars

SlugNext == SlugCall \/ SlugCallAgain

SpecSlug == SlugInit /\ [][SlugNext]_vars

\* C14: sanitizeSlug with its default arguments is idempotent: sanitizing a
\* result again returns the same slug
C14_SanitizeIdempotent ==
    pc = "again" => slugAgain = slugOut

\* an input longer than maxLength that the function changed was sanitized
\* twice
C14_Witness ==
    /\ pc = "again"
    /\ Len(slugIn) > SlugMaxLength
    /\ slugOut # slugIn
    /\ slugAgain = slugOut

C16_WitnessFallback ==
    /\ pc = "returned"
    /\ slugIn # <<>>
    /\ slugOut = PostToken


\* generateMarkdownFromCsv: the record loop

MaxRecords == 4

ContentDirName == <<"c", "o", "n", "t", "e", "n", "t">>

Untitled == <<"U", "n", "t", "i", "t", "l", "e", "d">>

\* the Title column of a record: missing, or a title; two of the titles
\* sanitize to the same slug, one sanitizes to that slug with a number
RecordTitles ==
    {<<>>, <<"a">>, <<"A", "!">>, <<"a", "-", "1">>}

RECURSIVE RecordLists(_)
RecordLists(n) ==
    IF n = 0 THEN {<<>>}
    ELSE LET shorter == RecordLists(n - 1)
         IN shorter \cup {Append(r, t) : r \in shorter, t \in RecordTitles}

\* `${slug}-${slugCounter}`
Numbered(slug, n) == slug \o <<"-">> \o NumStr(n)

\* an ensureUniqueSlug that returns the slug as it is
EnsureUniqueSlugUnchecked(slug, existing) == slug

\* the while loop of ensureUniqueSlug
RECURSIVE UniqueSlugLoop(_, _, _, _)
UniqueSlugLoop(slug, existing, finalSlug, slugCounter) ==
    IF finalSlug \in existing
    THEN UniqueSlugLoop(slug, existing, Numbered(slug, slugCounter),
                        slugCounter + 1)
    ELSE finalSlug

\* ensureUniqueSlug(slug, existingSlugs): the value returned
EnsureUniqueSlug(slug, existing) == UniqueSlugLoop(slug, existing, slug, 1)

\* const title = item.Title || 'Untitled'
RecordTitle(t) == IF t = <<>> THEN Untitled ELSE t

RecordsInit ==
    /\ pc = "records"
    /\ records \in RecordLists(MaxRecords)
    /\ recIdx = 1
    /\ existingSlugs = {}
    /\ recSlugs = <<>>
    /\ slugIn = <<>>
    /\ slugOut = Null
    /\ slugAgain = Null
    /\ PipelineIdle
    /\ readCall = <<>>
    /\ partialsConfig = AsCommitted
    /\ RenderIdle
    /\ ExtractIdle

\* one iteration of for (const item of data): the slug of the record, its
\* entry in existingSlugs, and the write of content/<slug>.md (a failed write
\* is caught and logged)
GenerateRecord ==
    /\ pc = "records"
    /\ recIdx <= Len(records)
    /\ LET title == RecordTitle(records[recIdx])
           slug  == EnsureUniqueSlug(SanitizeSlugDefault(title), existingSlugs)
       IN /\ existingSlugs' = existingSlugs \cup {slug}
          /\ recSlugs' = Append(recSlugs, slug)
          /\ \E ok \in BOOLEAN :
                written' =
                    IF ok
                    THEN Append(written,
                                [path |-> PathJoin(ContentDirName, slug \o ExtMd),
                                 kind |-> "markdown",
                                 html |-> title])
                    ELSE written
    /\ recIdx' = recIdx + 1
    /\ UNCHANGED <<pc, records, slugIn, slugOut, slugAgain>>
    /\ UNCHANGED <<postsPerPage, contentDir, markdownFiles, idx, posts,
                   skippedEntries, postSlices, totalPages, pageTask, reported,
                   caught, fileTask, renderVars, extractVars, tagData,
                   readCall, partialsConfig>>

\* the loop is over
GenerateDone ==
    /\ pc = "records"
    /\ recIdx > Len(records)
    /\ pc' = "recordsDone"
    /\ UNCHANGED <<records, recIdx, existingSlugs, recSlugs, slugIn, slugOut,
                   slugAgain>>
    /\ UNCHANGED notSlugVars

RecordsNext == GenerateRecord \/ GenerateDone

SpecRecords == RecordsInit /\ [][RecordsNext]_vars


\* the record loop has gone over every record
RecordsDone == pc = "recordsDone"

\* the slug record k sanitizes to
RecordSlug(k) == SanitizeSlugDefault(RecordTitle(records[k]))

\* t is s followed by a hyphen and a number
IsNumberedFrom(t, s) ==
    /\ Len(t) > Len(s) + 1
    /\ SubSeq(t, 1, Len(s) + 1) = s \o <<"-">>
    /\ \A k \in (Len(s) + 2)..Len(t) : \E j \in 1..10 : DigitChars[j] = t[k]

\* the records that sanitize to s, and how many of them come before record k
SameSlug(s) == {k \in 1..Len(records) : RecordSlug(k) = s}

RankIn(s, k) == Cardinality({j \in SameSlug(s) : j < k})

\* the records that sanitize to s were given s, s-1, s-2, ... in record order
NumberedInOrder(s) ==
    \A k \in SameSlug(s) :
        recSlugs[k] = IF RankIn(s, k) = 0 THEN s ELSE Numbered(s, RankIn(s, k))

\* the slugs given so far are pairwise distinct, are the members of
\* existingSlugs, and no Markdown file was written twice
SlugsDistinct ==
    /\ \A i, j \in 1..Len(recSlugs) : i # j => recSlugs[i] # recSlugs[j]
    /\ existingSlugs = {recSlugs[k] : k \in 1..Len(recSlugs)}
    /\ \A i, j \in 1..Len(written) : i # j => written[i].path # written[j].path

\* C13 as stated: the slugs of the records are pairwise distinct, and the
\* records that sanitize to one slug s are given s, s-1, ..., s-(k-1) in
\* record order whenever no other record sanitizes to s-<number>
C13_NumberedWhenNoOtherNumbered ==
    /\ SlugsDistinct
    /\ RecordsDone =>
          \A s \in {RecordSlug(k) : k \in 1..Len(records)} :
              (\A k \in 1..Len(records) : ~IsNumberedFrom(RecordSlug(k), s))
                  => NumberedInOrder(s)

\* C13, amended: the slugs of the records are pairwise distinct, and the
\* records that sanitize to one slug s are given s, s-1, ..., s-(k-1) in
\* record order whenever no other record sanitizes to s-<number> and s itself
\* is not t-<number> for the slug t of another record
C13_NumberedWhenUnrelated ==
    /\ SlugsDistinct
    /\ RecordsDone =>
          \A s \in {RecordSlug(k) : k \in 1..Len(records)} :
              (\A k \in 1..Len(records) :
                  /\ ~IsNumberedFrom(RecordSlug(k), s)
                  /\ ~IsNumberedFrom(s, RecordSlug(k)))
                  => NumberedInOrder(s)

\* three records sanitized to the same slug, among records of other slugs,
\* and every file was written
C13_Witness ==
    /\ RecordsDone
    /\ Len(written) = Len(records)
    /\ \E s \in {RecordSlug(k) : k \in 1..Len(records)} :
          /\ Cardinality(SameSlug(s)) = 3
          /\ Len(records) > 3
          /\ \A k \in 1..Len(records) :
                /\ ~IsNumberedFrom(RecordSlug(k), s)
                /\ ~IsNumberedFrom(s, RecordSlug(k))
          /\ \E k \in SameSlug(s) : recSlugs[k] = Numbered(s, 2)

-----------------------------------------------------------------------------
(* Properties of the tag pages of ssg.js                                   *)

\* generateTagPages has returned
TagPagesWritten == pc \in {"paginate", "pages"} \/ (pc = "done" /\ reported)

\* path.join(outputDir, 'tags', tagType, name)
TagDirOf(tagType, name) ==
    PathJoin(PathJoin(PathJoin(OutputDir, TagsDir), tagType), name)

\* the posts written by the file loop, as directory entries
PostedEntries ==
    {k \in 1..Len(contentDir) :
        \E j \in 1..(idx - 1) :
            /\ j <= Len(markdownFiles)
            /\ markdownFiles[j] = contentDir[k].file
            /\ contentDir[k].title # NoTitle}

\* the tag values of a directory entry
ValuesOf(k) == {contentDir[k].genre[j] : j \in 1..Len(contentDir[k].genre)}

\* page n of the bucket was written to directory dir, as index.html or
\* page-<n>.html
PageWrittenUnder(bucket, n, dir) ==
    \E w \in 1..Len(written) :
        /\ written[w].kind = "tag"
        /\ written[w].path = PathJoin(dir, TagPageFileName(n))
        /\ written[w].html.tagValue = bucket.key
        /\ written[w].html.posts =
              Slice(bucket.posts, (n - 1) * postsPerPage, n * postsPerPage)

\* C15: for every tag value v of a post, the post is in the bucket stored
\* under the key k = sanitizeTagValue(v), and every page of that bucket is
\* written under tags/<tagType>/<k>/, page 1 as index.html and page N as
\* page-N.html: the directory is named by the key of the bucket
C15_TagPagesUnderKey ==
    TagPagesWritten =>
        \A e \in PostedEntries : \A v \in ValuesOf(e) :
            \E b \in 1..Len(tagData) :
                LET bucket == tagData[b] IN
                /\ bucket.tagType = Genre
                /\ bucket.key = SanitizeTagValue(v)
                /\ \E p \in 1..Len(bucket.posts) :
                      bucket.posts[p].url = FileSlug(contentDir[e].file) \o ExtHtml
                /\ \A n \in 1..CeilDiv(Len(bucket.posts), postsPerPage) :
                      PageWrittenUnder(bucket, n, TagDirOf(Genre, bucket.key))

-----------------------------------------------------------------------------
(* The order of the stages of ssg.js runSSG                                *)

\* preloadTemplates has been called
PreloadStarted == pc # "preload"

\* preloadTemplates has returned
PreloadFinished == pc # "preload"

\* extractDataFromSources has returned
ExtractionFinished == pc \notin {"preload", "tagTypes", "extract", "halted"}

\* the file loop has read a Markdown file
FirstFileRead == pc \in {"loop", "paginate", "pages", "rejected", "done"}

\* no post file was written after a tag page or an index page
PostsWrittenFirst ==
    \A i, j \in 1..Len(written) :
        (i < j /\ written[i].kind \in {"tag", "index"}) => written[j].kind # "post"

\* a run that resolved has written every index page
IndexPagesWritten ==
    /\ Len(WritesOf("index")) = totalPages
    /\ \A p \in 1..Len(pageTask) : pageTask[p].pc = "done"

\* C17: in every run of runSSG, data extraction finishes before template
\* preload starts, template preload finishes before the first Markdown file
\* is read, every post file is written before any tag page or index page,
\* and the run finishes only after the last index page is written
C17_StageOrder ==
    /\ PreloadStarted => ExtractionFinished
    /\ FirstFileRead => PreloadFinished
    /\ PostsWrittenFirst
    /\ (pc = "done" /\ ~caught) => IndexPagesWritten

-----------------------------------------------------------------------------
(* The barrier of the concurrent pipeline of part_004                      *)

\* the event loop runs every continuation that is ready, and file system
\* calls complete
SpecConcurrentFair == SpecConcurrent /\ WF_vars(P4Next)

\* the task of file i has finished or had its error caught
Settled(i) == fileTask[i].pc \in {"done", "caught"}

\* the HTML of file i was written
HtmlWritten(i) ==
    \E w \in 1..Len(written) :
        written[w].kind = "post" /\ written[w].file = markdownFiles[i]

\* the entry task i pushes
EntryOf(i) == [title |-> fileTask[i].title, url |-> fileTask[i].url]

\* index.html was generated
IndexGenerated == \E w \in 1..Len(written) : written[w].kind = "index"

\* when index.html is generated every task has settled, the page lists the
\* Post list, and the list holds one entry per file whose HTML was written
\* and none for a failed file
PostsAtBarrier ==
    IndexGenerated =>
        /\ \A i \in 1..Len(fileTask) : Settled(i)
        /\ \A w \in 1..Len(written) :
              written[w].kind = "index" => written[w].html.posts = posts
        /\ \A i \in 1..Len(fileTask) :
              (fileTask[i].pc = "done") <=> HtmlWritten(i)
        /\ Len(posts) = Cardinality({i \in 1..Len(fileTask) : HtmlWritten(i)})
        /\ \A i \in 1..Len(fileTask) :
              HtmlWritten(i) =>
                  Count(posts, LAMBDA e : e = EntryOf(i)) =
                      Cardinality({j \in 1..Len(fileTask) :
                                      HtmlWritten(j) /\ EntryOf(j) = EntryOf(i)})

\* the Post list changes only when a task finishes, by the entry of that
\* task put at its end: the list is in task-completion order
PushedAtCompletion ==
    /\ \A i \in (DOMAIN fileTask) \cap (DOMAIN fileTask') :
          (fileTask[i].pc # "done" /\ fileTask'[i].pc = "done")
              => posts' = Append(posts, EntryOf(i))
    /\ posts' # posts =>
          \E i \in (DOMAIN fileTask) \cap (DOMAIN fileTask') :
              fileTask[i].pc # "done" /\ fileTask'[i].pc = "done"

\* C18: under every interleaving of the tasks of part_004, index.html is
\* generated only after every task has settled; the Post list then holds
\* exactly one entry per file whose HTML was written and none for a failed
\* file, in task-completion order; and whatever fails in a task, the other
\* tasks go on and index.html is generated
C18_BarrierAndPosts ==
    /\ []PostsAtBarrier
    /\ [][PushedAtCompletion]_vars
    /\ <>IndexGenerated

\* one task failed, another wrote its HTML after that, and index.html lists
\* only the latter
C18_Witness ==
    /\ IndexGenerated
    /\ Len(fileTask) = 2
    /\ fileTask[1].pc = "caught"
    /\ fileTask[2].pc = "done"
    /\ Len(posts) = 1

-----------------------------------------------------------------------------
(* part_005, first program: readFile called by concurrent tasks            *)

MaxCalls == 3

\* the template every task asks for
NavName == "nav"

\* a file that exists and is empty
NavEmpty == [n \in {NavName} |-> <<>>]

\* a call that has not been made yet
NoCall == [pc |-> "new", name |-> NavName, result |-> Null]

ReadFileInit ==
    /\ pc = "tasks"
    /\ readCall \in UNION {[1..n -> {NoCall}] : n \in 1..MaxCalls}
    /\ partialsConfig = AsCommitted
    /\ partialsDir \in {NoPartials, NavOnly, NavEmpty}
    /\ partialCache \in IF partialsDir = NavOnly THEN {NoPartials, NavOnly}
                                                 ELSE {NoPartials}
    /\ variant = "none"
    /\ tplIn = <<>>
    /\ ctxIn = <<>>
    /\ template = <<>>
    /\ context = <<>>
    /\ PipelineIdle
    /\ ExtractIdle
    /\ SlugIdle

\* what readFile never touches
notReadVars == <<pc, variant, tplIn, ctxIn, template, context, partialsDir,
                 postsPerPage, contentDir, markdownFiles, idx, posts,
                 skippedEntries, written, postSlices, totalPages, pageTask,
                 reported, caught, fileTask, extractVars, slugVars, tagData,
                 partialsConfig>>

\* a read that delivers only the first piece of the file
FileContentFirstPiece(dir, name) == SubSeq(dir[name], 1, 1)

\* await fs.readFile(filePath, 'utf-8')
FileContent(dir, name) == dir[name]

\* readFile(dir, name) up to its first await: a cache hit returns the cached
\* text, a miss calls fs.pathExists
RfCall(c) ==
    /\ readCall[c].pc = "new"
    /\ LET name == readCall[c].name IN
       IF name \in DOMAIN partialCache /\ partialCache[name] # <<>>
       THEN readCall' = [readCall EXCEPT ![c].pc = "returned",
                                         ![c].result = partialCache[name]]
       ELSE readCall' = [readCall EXCEPT ![c].pc = "exists"]
    /\ UNCHANGED partialCache
    /\ UNCHANGED notReadVars

\* fs.pathExists resolves: fs.readFile is called, or '' is returned
RfExists(c) ==
    /\ readCall[c].pc = "exists"
    /\ IF readCall[c].name \in DOMAIN partialsDir
       THEN readCall' = [readCall EXCEPT ![c].pc = "read"]
       ELSE readCall' = [readCall EXCEPT ![c].pc = "returned",
                                         ![c].result = <<>>]
    /\ UNCHANGED partialCache
    /\ UNCHANGED notReadVars

\* fs.readFile resolves: cache[name] = content; return content
RfRead(c) ==
    /\ readCall[c].pc = "read"
    /\ LET name    == readCall[c].name
           content == FileContent(partialsDir, name)
       IN /\ partialCache' = [n \in DOMAIN partialCache \cup {name} |->
                                IF n = name THEN content ELSE partialCache[n]]
          /\ readCall' = [readCall EXCEPT ![c].pc = "returned",
                                          ![c].result = content]
    /\ UNCHANGED notReadVars

ReadFileNext ==
    \/ \E c \in 1..Len(readCall) : RfCall(c)
    \/ \E c \in 1..Len(readCall) : RfExists(c)
    \/ \E c \in 1..Len(readCall) : RfRead(c)

SpecReadFile == ReadFileInit /\ [][ReadFileNext]_vars

\* the text of the file on disk; '' for a file that does not exist
TextOnDisk(name) ==
    IF name \in DOMAIN partialsDir THEN partialsDir[name] ELSE <<>>

\* C19: with the file on disk unchanged, under every interleaving of the
\* calls every readFile call that has returned returned the text of the file
\* (so all calls return the same text), the cache entry of the name, once
\* there is one, is that text, and there is one as soon as a call has read
\* the file
C19_ConcurrentReadsAgree ==
    /\ \A c \in 1..Len(readCall) :
          readCall[c].pc = "returned" => readCall[c].result = TextOnDisk(NavName)
    /\ NavName \in DOMAIN partialCache => partialCache[NavName] = TextOnDisk(NavName)
    /\ (NavName \in DOMAIN partialsDir
        /\ \A c \in 1..Len(readCall) : readCall[c].pc = "returned")
          => (NavName \in DOMAIN partialCache
              /\ partialCache[NavName] = TextOnDisk(NavName))

\* two calls missed the cache and both read the file before either
\* returned, a third call hit the cache
C19_Witness ==
    /\ Len(readCall) = 3
    /\ \A c \in 1..3 : readCall[c].pc = "returned"
    /\ partialsDir = NavOnly
    /\ partialCache = NavOnly

-----------------------------------------------------------------------------
(* ssg.js: the caches after preloadTemplates                               *)

\* runSSG before preloadTemplates: the caches are empty; the template and
\* context are those of a renderTemplate call made later in the run
\* (include.length === 0 || include.includes(name)) && !exclude.includes(name)
ShouldInclude(config, name) ==
    /\ \/ Len(config.include) = 0
       \/ \E k \in 1..Len(config.include) : config.include[k] = name
    /\ ~ \E k \in 1..Len(config.exclude) : config.exclude[k] = name

CacheInit ==
    /\ pc = "preload"
    /\ variant = "ssg"
    /\ tplIn \in Templates
    /\ ctxIn \in Contexts
    /\ template = tplIn
    /\ context = ctxIn
    /\ partialCache = NoPartials
    /\ partialsDir \in {NoPartials, NavOnly}
    /\ PipelineIdle
    /\ readCall = <<>>
    /\ partialsConfig = AsCommitted
    /\ ExtractIdle
    /\ SlugIdle

\* preloadTemplates: every .html file of the directory is read and cached;
\* a read that throws is caught and logged, and leaves no entry.  The layout
\* cache is filled by the same code from the layouts directory.
PreloadPartialFiles ==
    /\ pc = "preload"
    /\ \E cached \in SUBSET {n \in DOMAIN partialsDir :
                                ShouldInclude(partialsConfig, n)} :
          partialCache' = [n \in cached |-> partialsDir[n]]
    /\ pc' = "call"
    /\ UNCHANGED <<variant, tplIn, ctxIn, template, context, partialsDir>>
    /\ UNCHANGED pipelineVars

CacheNext ==
    \/ PreloadPartialFiles
    \/ SsgRenderCall
    \/ SsgPartials
    \/ SsgLoops
    \/ SsgConditionals
    \/ SsgVariables

SpecCache == CacheInit /\ [][CacheNext]_vars

\* C20: once preloadTemplates has completed, no step of the run adds, changes
\* or removes a cache entry
C20_CachesReadOnlyAfterPreload ==
    [][pc # "preload" => partialCache' = partialCache]_vars


-----------------------------------------------------------------------------
(* ssg.js: readFile(dir, name), its calls and a disk that changes between   *)
(* the calls                                                                 *)

\* another text for partials/nav.html
NavOther == [n \in {NavName} |-> <<Text("m")>>]

\* what partials/nav.html can be on disk
DiskStates == {NoPartials, NavOnly, NavEmpty, NavOther}

\* a call that has not been made yet; seen is the set of non-empty texts
\* that earlier calls had returned when the call was made
NoSsgCall == [pc |-> "new", name |-> NavName, result |-> Null, seen |-> {}]

\* the non-empty texts returned so far
ReturnedTexts ==
    {readCall[c].result : c \in {k \in 1..Len(readCall) :
         readCall[k].pc = "returned" /\ readCall[k].result # <<>>}}

SsgReadInit ==
    /\ pc = "tasks"
    /\ readCall \in UNION {[1..n -> {NoSsgCall}] : n \in 1..MaxCalls}
    /\ partialsConfig = AsCommitted
    /\ partialsDir \in DiskStates
    /\ partialCache = NoPartials
    /\ variant = "none"
    /\ tplIn = <<>>
    /\ ctxIn = <<>>
    /\ template = <<>>
    /\ context = <<>>
    /\ PipelineIdle
    /\ ExtractIdle
    /\ SlugIdle

\* what neither readFile nor the disk touches
notDiskVars == <<pc, variant, tplIn, ctxIn, template, context,
                 postsPerPage, contentDir, markdownFiles, idx, posts,
                 skippedEntries, written, postSlices, totalPages, pageTask,
                 reported, caught, fileTask, extractVars, slugVars, tagData,
                 partialsConfig>>

\* a readFile that caches nothing
KeepCache(cache, name, content) == cache

\* cache[name] = content
StoreInCache(cache, name, content) ==
    [n \in DOMAIN cache \cup {name} |-> IF n = name THEN content ELSE cache[n]]

\* if (cache[name]): the cache holds a non-empty text for name
CacheHit(name) == name \in DOMAIN partialCache /\ partialCache[name] # <<>>

\* readFile(dir, name) up to its first await: a cache hit returns the cached
\* text, a miss calls fs.pathExists
RsCall(c) ==
    /\ readCall[c].pc = "new"
    /\ LET name == readCall[c].name IN
       IF CacheHit(name)
       THEN readCall' = [readCall EXCEPT ![c].pc = "returned",
                                         ![c].result = partialCache[name],
                                         ![c].seen = ReturnedTexts]
       ELSE readCall' = [readCall EXCEPT ![c].pc = "exists",
                                         ![c].seen = ReturnedTexts]
    /\ UNCHANGED <<partialCache, partialsDir>>
    /\ UNCHANGED notDiskVars

\* fs.pathExists resolves: fs.readFile is called, or '' is returned
RsExists(c) ==
    /\ readCall[c].pc = "exists"
    /\ IF readCall[c].name \in DOMAIN partialsDir
       THEN readCall' = [readCall EXCEPT ![c].pc = "read"]
       ELSE readCall' = [readCall EXCEPT ![c].pc = "returned",
                                         ![c].result = <<>>]
    /\ UNCHANGED <<partialCache, partialsDir>>
    /\ UNCHANGED notDiskVars

\* fs.readFile resolves: cache[name] = content; return content
RsRead(c) ==
    /\ readCall[c].pc = "read"
    /\ LET name    == readCall[c].name
           content == partialsDir[name]
       IN /\ partialCache' = StoreInCache(partialCache, name, content)
          /\ readCall' = [readCall EXCEPT ![c].pc = "returned",
                                          ![c].result = content]
    /\ UNCHANGED partialsDir
    /\ UNCHANGED notDiskVars

\* between two calls the file is written, changed or deleted
DiskChanges ==
    /\ \A c \in 1..Len(readCall) : readCall[c].pc \in {"new", "returned"}
    /\ \E d \in DiskStates \ {partialsDir} : partialsDir' = d
    /\ UNCHANGED <<readCall, partialCache>>
    /\ UNCHANGED notDiskVars

SsgReadNext ==
    \/ \E c \in 1..Len(readCall) : RsCall(c)
    \/ \E c \in 1..Len(readCall) : RsExists(c)
    \/ \E c \in 1..Len(readCall) : RsRead(c)
    \/ DiskChanges

SpecSsgRead == SsgReadInit /\ [][SsgReadNext]_vars

\* a step of call c on a cache hit: the cached text is returned at once, with
\* no fs call in between, and the cache stays as it is
HitReturnsCached(c) ==
    (readCall[c].pc = "new" /\ CacheHit(readCall[c].name)
     /\ readCall'[c] # readCall[c])
       => /\ readCall'[c].pc = "returned"
          /\ readCall'[c].result = partialCache[readCall[c].name]
          /\ partialCache' = partialCache

\* a step of call c after a miss, the file existing: the call goes on to read
\* it, and returns and caches its content
MissReadsFile(c) ==
    /\ (readCall[c].pc = "exists" /\ readCall[c].name \in DOMAIN partialsDir
        /\ readCall'[c] # readCall[c])
          => readCall'[c].pc = "read" /\ partialCache' = partialCache
    /\ (readCall[c].pc = "read" /\ readCall'[c] # readCall[c])
          => /\ readCall'[c].pc = "returned"
             /\ readCall'[c].result = TextOnDisk(readCall[c].name)
             /\ readCall[c].name \in DOMAIN partialCache'
             /\ partialCache'[readCall[c].name] = TextOnDisk(readCall[c].name)

\* a step of call c after a miss, the file not existing: '' is returned and
\* the cache stays as it is
MissingReturnsEmpty(c) ==
    (readCall[c].pc = "exists" /\ readCall[c].name \notin DOMAIN partialsDir
     /\ readCall'[c] # readCall[c])
       => /\ readCall'[c].pc = "returned"
          /\ readCall'[c].result = <<>>
          /\ partialCache' = partialCache

\* a call made after a call had returned a non-empty text returned that text
LaterCallsAgree ==
    \A c \in 1..Len(readCall) :
        (readCall[c].pc = "returned" /\ readCall[c].seen # {})
            => readCall[c].seen = {readCall[c].result}

-----------------------------------------------------------------------------
(* ssg.js renderTemplate: nested loops, the caller's context, and values    *)
(* that hold marker text                                                     *)

\* the parts of a template with one loop nested in another:
\* pre {{#each outer}} a {{#each inner}} b {{ x }} {{/each}} c {{/each}}
NestedParts ==
    [pre : {<<>>, <<Text("p")>>},
     a   : {<<>>, <<Text("a")>>},
     b   : {<<Text("b")>>},
     c   : {<<>>, <<Text("c")>>}]

Nest(p) ==
    p.pre \o <<EachTok("outer")>> \o p.a
          \o <<EachTok("inner")>> \o p.b \o <<VarTok("x")>> \o <<EndEach>>
          \o p.c \o <<EndEach>>

NestedTemplates == {Nest(p) : p \in NestedParts}

\* templates whose placeholders name one key
OneKeyTemplates ==
    UNION {{ <<VarTok(key)>>,
             <<VarTok(key), Text("-"), VarTok(key)>>,
             <<EachTok("items"), VarTok(key), EndEach>> }
           : key \in {"a", "currentYear"}}

InnerItem(v) == [key \in {"x"} |-> Str(<<Text(v)>>)]

OuterItem(items) == [key \in {"inner"} |-> Arr(items)]

OuterValues ==
    {Missing, Arr(<<>>), Arr(<<OuterItem(<<InnerItem("i")>>)>>),
     Arr(<<OuterItem(<<InnerItem("i"), InnerItem("j")>>), OuterItem(<<>>)>>)}

\* a front-matter year
Year1999 == Str(<<Text("1999")>>)

\* a value that reads like the placeholder {{ b }}
LooksLikeB == Str(<<VarTok("b")>>)

ItemsValues ==
    {Missing, Arr(<<EmptyObject>>),
     Arr(<<[key \in {"a"} |-> LooksLikeB]>>),
     Arr(<<[key \in {"currentYear"} |-> Year1999]>>)}

\* the context with the keys of f that have a value
ContextFrom(f) == [key \in {k \in DOMAIN f : f[k] # Missing} |-> f[key]]

CallerContexts ==
    {ContextFrom([outer |-> o, items |-> it, a |-> a, b |-> b,
                  currentYear |-> y]) :
        o \in OuterValues, it \in ItemsValues,
        a \in {Missing, Str(<<Text("v")>>), LooksLikeB},
        b \in {Missing, Str(<<Text("1")>>), Str(<<Text("2")>>)},
        y \in {Missing, Year1999}}

SsgRenderInit ==
    /\ pc = "call"
    /\ variant = "ssg"
    /\ tplIn \in NestedTemplates \cup OneKeyTemplates
    /\ ctxIn \in CallerContexts
    /\ template = tplIn
    /\ context = ctxIn
    /\ partialCache = NoPartials
    /\ partialsDir = NoPartials
    /\ PipelineIdle
    /\ readCall = <<>>
    /\ partialsConfig = AsCommitted
    /\ ExtractIdle
    /\ SlugIdle

SsgRenderNext ==
    \/ SsgRenderCall
    \/ SsgPartials
    \/ SsgLoops
    \/ SsgConditionals
    \/ SsgVariables

SpecSsgRender == SsgRenderInit /\ [][SsgRenderNext]_vars

\* the concatenation of the sequences f[1], ..., f[n]
RECURSIVE ConcatAll(_)
ConcatAll(f) == IF f = <<>> THEN <<>> ELSE Head(f) \o ConcatAll(Tail(f))

\* the items of ctx[key], none if it is not an array
ItemsOf(ctx, key) == IF IsArray(ctx, key) THEN ctx[key].v ELSE <<>>

\* what the nested template of parts p is to render to: per outer item, a,
\* then b and the item's x once per inner item of the merged context, then c
NestedOutput(p, ctx) ==
    p.pre \o ConcatAll(
        [o \in 1..Len(ItemsOf(ctx, "outer")) |->
            LET octx == Merge(ctx, ItemsOf(ctx, "outer")[o])
            IN p.a \o ConcatAll(
                   [i \in 1..Len(ItemsOf(octx, "inner")) |->
                       LET ictx == Merge(octx, ItemsOf(octx, "inner")[i])
                       IN p.b \o OrEmpty(ictx, "x")])
               \o p.c])

\* C22: for a template with an {{#each inner}} block inside the body of an
\* {{#each outer}} block, the output holds the inner body rendered once per
\* inner item for each outer item, and no {{#each}} or {{/each}} marker
C22_NestedLoops ==
    (Returned /\ tplIn \in NestedTemplates /\ IsArray(ctxIn, "outer"))
        => LET p == CHOOSE q \in NestedParts : Nest(q) = tplIn
           IN /\ template = NestedOutput(p, ctxIn)
              /\ KindsOf(template) \cap {"each", "endeach"} = {}


\* the one-key templates over key
VarOnly(key)  == <<VarTok(key)>>
LoopOver(key) == <<EachTok("items"), VarTok(key), EndEach>>

\* the values of key, one per item of ctx.items, each item merged over ctx
ItemValues(ctx, key) ==
    ConcatAll([i \in 1..Len(ItemsOf(ctx, "items")) |->
                  OrEmpty(Merge(ctx, ItemsOf(ctx, "items")[i]), key)])

\* C23: a renderTemplate call leaves the caller's context mapping as it was,
\* and a key supplied by the caller or by a loop item, currentYear included,
\* is rendered with the supplied value
C23_CallerContextUnchanged ==
    /\ context = ctxIn
    /\ \A key \in {"a", "currentYear"} :
        /\ (Returned /\ tplIn = VarOnly(key) /\ key \in DOMAIN ctxIn)
              => template = OrEmpty(ctxIn, key)
        /\ (Returned /\ tplIn = LoopOver(key) /\ IsArray(ctxIn, "items"))
              => template = ItemValues(ctxIn, key)

\* ctx with the key b set to val, or without it
WithB(ctx, val) ==
    [key \in (DOMAIN ctx \ {"b"}) \cup (IF val = Missing THEN {} ELSE {"b"}) |->
        IF key = "b" THEN val ELSE ctx[key]]

\* the template with every {{ a }} written in it replaced by the value of a
\* as it stands, a loop over items by the items' values of a
LiteralOutput(t, ctx) ==
    IF t = LoopOver("a") THEN ItemValues(ctx, "a")
    ELSE ConcatAll([i \in 1..Len(t) |->
                       IF t[i] = VarTok("a") THEN OrEmpty(ctx, "a")
                       ELSE <<t[i]>>])

\* C30: for a template whose placeholders name only the key a, the output
\* does not depend on the unreferenced key b, also when the value of a, or
\* of a loop item's field a, reads like {{ b }}: that text is in the output
\* as it stands and every placeholder of the template is substituted
C30_ValuesNotReinterpreted ==
    (Returned /\ tplIn \in OneKeyTemplates /\ VarTok("a") \in
         {tplIn[i] : i \in 1..Len(tplIn)})
        => /\ \A val \in {Missing, Str(<<Text("1")>>), Str(<<Text("2")>>)} :
                template = SsgRender(tplIn, WithB(ctxIn, val),
                                     NoPartials, NoPartials).t
           /\ template = LiteralOutput(tplIn, ctxIn)


-----------------------------------------------------------------------------
(* ssg.js processContent: the tag buckets and the Post list                 *)

\* the places of a bucket entry in the Post list
PlacesOf(entry) == {i \in 1..Len(posts) : posts[i] = entry}

\* the entries of the bucket are posts, in the order of the Post list
BucketFollowsPosts(bucket) ==
    /\ \A k \in 1..Len(bucket.posts) : PlacesOf(bucket.posts[k]) # {}
    /\ \A k, l \in 1..Len(bucket.posts) :
          k < l => \E i \in PlacesOf(bucket.posts[k]),
                      j \in PlacesOf(bucket.posts[l]) : i < j

\* C24: at every point of the file loop every entry of every tag bucket is
\* an entry of the Post list, the entries of a bucket are in the order of
\* their posts in the Post list, and no bucket holds an entry of a skipped
\* file
C24_BucketsFollowPosts ==
    /\ \A b \in 1..Len(tagData) : BucketFollowsPosts(tagData[b])
    /\ \A b \in 1..Len(tagData) : \A k \in 1..Len(tagData[b].posts) :
          \A s \in 1..Len(skippedEntries) :
              tagData[b].posts[k].url # skippedEntries[s].link

\* inside the file loop, after a file was skipped, one bucket holds two posts
C24_Witness ==
    /\ pc = "loop"
    /\ idx <= Len(markdownFiles)
    /\ skippedEntries # <<>>
    /\ \E b \in 1..Len(tagData) : Len(tagData[b].posts) = 2


-----------------------------------------------------------------------------
(* part_005, third program: the streaming pipeline                          *)

StreamInit ==
    /\ pc = "start"
    /\ contentDir \in UNION {P4Listings(n) : n \in 0..MaxFiles}
    /\ markdownFiles = <<>>
    /\ posts = <<>>
    /\ written = <<>>
    /\ fileTask = <<>>
    /\ tagData = <<>>
    /\ readCall = <<>>
    /\ partialsConfig = AsCommitted
    /\ reported = FALSE
    /\ caught = FALSE
    /\ postsPerPage = PostsPerPageDefault
    /\ idx = 1
    /\ skippedEntries = <<>>
    /\ postSlices = <<>>
    /\ totalPages = 0
    /\ pageTask = <<>>
    /\ RenderIdle
    /\ ExtractIdle
    /\ SlugIdle

\* what the streaming pipeline never touches
notStreamVars == <<postsPerPage, skippedEntries, postSlices, totalPages,
                   pageTask, renderVars, extractVars, slugVars, tagData,
                   readCall, partialsConfig>>

\* `${outputDir}/${file.replace('.md', '.html')}`
StreamOutputFile(file) ==
    P4OutputDir \o <<"/">> \o ReplaceFirst(file, ExtMd, ExtHtml)

\* processContent: list the .md files; no stream is open yet
StStart ==
    /\ pc = "start"
    /\ markdownFiles' = SelectSeq([k \in 1..Len(contentDir) |-> contentDir[k].file],
                                  LAMBDA f : EndsWith(f, ExtMd))
    /\ fileTask' = [k \in 1..Len(markdownFiles') |->
                        [pc |-> "new", readStream |-> "none",
                         writeStream |-> "none"]]
    /\ pc' = "loop"
    /\ UNCHANGED <<contentDir, idx, posts, written, reported, caught>>
    /\ UNCHANGED notStreamVars

\* createReadStream(postFile), createWriteStream(outputFile): both files are
\* opened, which creates the output file, empty
StOpen ==
    /\ pc = "loop"
    /\ idx <= Len(markdownFiles)
    /\ fileTask[idx].pc = "new"
    /\ fileTask' = [fileTask EXCEPT ![idx] =
            [pc |-> "read", readStream |-> "open", writeStream |-> "open"]]
    /\ written' = Append(written,
            [path |-> StreamOutputFile(markdownFiles[idx]), kind |-> "created",
             html |-> NoHtml, file |-> markdownFiles[idx]])
    /\ UNCHANGED <<pc, contentDir, markdownFiles, idx, posts, reported, caught>>
    /\ UNCHANGED notStreamVars

\* the promise around the read stream settles: 'end' resolves it, 'error'
\* rejects it and the loop is left; the read stream closes itself either way
StRead ==
    /\ pc = "loop"
    /\ idx <= Len(markdownFiles)
    /\ fileTask[idx].pc = "read"
    /\ \E outcome \in {"end", "error"} :
        IF outcome = "end"
        THEN /\ fileTask' = [fileTask EXCEPT ![idx].pc = "render",
                                             ![idx].readStream = "closed"]
             /\ UNCHANGED pc
        ELSE /\ fileTask' = [fileTask EXCEPT ![idx].pc = "failed",
                                             ![idx].readStream = "closed"]
             /\ pc' = "rejected"
    /\ UNCHANGED <<contentDir, markdownFiles, idx, posts, written, reported,
                   caught>>
    /\ UNCHANGED notStreamVars

\* matter, marked and await generateSingleHTML: an exception leaves the loop
StRender ==
    /\ pc = "loop"
    /\ idx <= Len(markdownFiles)
    /\ fileTask[idx].pc = "render"
    /\ \E outcome \in {"ok", "parseError", "renderError"} :
        IF outcome = "ok"
        THEN /\ fileTask' = [fileTask EXCEPT ![idx].pc = "write"]
             /\ UNCHANGED pc
        ELSE /\ fileTask' = [fileTask EXCEPT ![idx].pc = "failed"]
             /\ pc' = "rejected"
    /\ UNCHANGED <<contentDir, markdownFiles, idx, posts, written, reported,
                   caught>>
    /\ UNCHANGED notStreamVars

\* await writeStream.write(html); writeStream.end(); posts.push(...)
StWrite ==
    /\ pc = "loop"
    /\ idx <= Len(markdownFiles)
    /\ fileTask[idx].pc = "write"
    /\ LET file  == markdownFiles[idx]
           title == PostTitle(contentDir[FrontMatter(file)], file)
       IN /\ written' = Append(written,
                [path |-> StreamOutputFile(file), kind |-> "post",
                 html |-> [layout |-> "single", title |-> title],
                 file |-> file])
          /\ posts' = Append(posts, [title |-> title,
                                     url |-> StreamOutputFile(file)])
    /\ fileTask' = [fileTask EXCEPT ![idx].pc = "done",
                                    ![idx].writeStream = "closed"]
    /\ idx' = idx + 1
    /\ UNCHANGED <<pc, contentDir, markdownFiles, reported, caught>>
    /\ UNCHANGED notStreamVars

\* after the loop: the index page, the build time, return processedCount
StIndex ==
    /\ pc = "loop"
    /\ idx > Len(markdownFiles)
    /\ written' = Append(written,
            [path |-> P4OutputDir \o <<"/", "i", "n", "d", "e", "x">> \o ExtHtml,
             kind |-> "index",
             html |-> [layout |-> "index", posts |-> posts],
             file |-> <<>>])
    /\ reported' = TRUE
    /\ pc' = "done"
    /\ UNCHANGED <<contentDir, markdownFiles, idx, posts, fileTask, caught>>
    /\ UNCHANGED notStreamVars

\* runSSG: catch (err) { console.error('Error:', err) }
StCatch ==
    /\ pc = "rejected"
    /\ caught' = TRUE
    /\ pc' = "done"
    /\ UNCHANGED <<contentDir, markdownFiles, idx, posts, written, fileTask,
                   reported>>
    /\ UNCHANGED notStreamVars

StreamNext ==
    \/ StStart
    \/ StOpen
    \/ StRead
    \/ StRender
    \/ StWrite
    \/ StIndex
    \/ StCatch

SpecStream == StreamInit /\ [][StreamNext]_vars

\* the processing of file i has ended
StreamEnded(i) == fileTask[i].pc \in {"done", "failed"}

\* C25: when the processing of a Markdown file has ended, completed or
\* failed, its read stream and its write stream are closed, and for a file
\* whose processing failed no output file was created
C25_StreamsReleased ==
    \A i \in 1..Len(fileTask) :
        StreamEnded(i)
            => /\ fileTask[i].readStream # "open"
               /\ fileTask[i].writeStream # "open"
               /\ fileTask[i].pc = "failed"
                    => \A w \in 1..Len(written) :
                          written[w].file # markdownFiles[i]


-----------------------------------------------------------------------------
(* ssg.js: config.partials.include / exclude, preload and later lookups     *)

PartialsConfigs ==
    [include : {<<>>, <<"nav">>, <<"footer">>}, exclude : {<<>>, <<"nav">>}]

ConfigInit ==
    /\ pc = "preload"
    /\ variant = "ssg"
    /\ tplIn \in Templates
    /\ ctxIn \in Contexts
    /\ template = tplIn
    /\ context = ctxIn
    /\ partialCache = NoPartials
    /\ partialsDir \in {NoPartials, NavOnly}
    /\ partialsConfig \in PartialsConfigs
    /\ PipelineIdle
    /\ readCall = <<>>
    /\ ExtractIdle
    /\ SlugIdle

SpecConfig == ConfigInit /\ [][CacheNext]_vars

\* C26: a partial name the configuration rejects (listed in exclude, or
\* absent from a non-empty include list) is never in partialCache, at preload
\* or later, and the page rendered is the one rendered without any partial
C26_RejectedNeverLoaded ==
    ~ShouldInclude(partialsConfig, NavName)
        => /\ NavName \notin DOMAIN partialCache
           /\ Returned => template = SsgRender(tplIn, ctxIn, NoPartials,
                                               NoPartials).t


-----------------------------------------------------------------------------
(* ssg.js: the page links handed to the layouts and the files written       *)

SitePrefix == <<"/", "y", "u", "u", "s", "h", "a", "c", "m", "s", "/">>

\* the paths the run has written, of one kind
PathsWritten(kind) ==
    {written[w].path : w \in {k \in 1..Len(written) : written[k].kind = kind}}

\* the file an index page URL names
IndexFileOf(url) ==
    PathJoin(OutputDir, SubSeq(url, Len(SitePrefix) + 1, Len(url)))

\* the file a tag page URL /tags/... names
TagFileOf(url) == OutputDir \o url

\* the non-null page links of a page
LinksOf(page) == {page.html.prevPage, page.html.nextPage} \ {Null}

\* C27: when the run has completed, every non-null prevPage or nextPage URL
\* handed to a layout names a page file the run has written: an index page
\* file for an index page, a file of the tag's directory for a tag page
C27_PageLinksResolve ==
    (pc = "done" /\ reported)
        => \A w \in 1..Len(written) :
              /\ written[w].kind = "index"
                    => \A url \in LinksOf(written[w]) :
                          IndexFileOf(url) \in PathsWritten("index")
              /\ written[w].kind = "tag"
                    => \A url \in LinksOf(written[w]) :
                          TagFileOf(url) \in PathsWritten("tag")


\* C28: no output path is written more than once in a run: the post files,
\* the index page files and the tag page files have pairwise distinct paths
C28_NoPathWrittenTwice ==
    \A i, j \in 1..Len(written) :
        i < j => written[i].path # written[j].path


-----------------------------------------------------------------------------
(* dataExtractor.js: the record loops of sources processed concurrently     *)

\* the titles of the records of one fetched source
SourceRecordLists ==
    {r \in RecordLists(MaxConcurrent) :
        \A k \in 1..Len(r) : r[k] \in {<<>>, <<"a">>}}

\* a fetched source whose generateMarkdownFromCsv / generateMarkdownFromJson
\* call begins: const existingSlugs = new Set()
FetchedSource(r) == [records |-> r, recIdx |-> 1, existingSlugs |-> {}]

SourcesInit ==
    /\ pc = "extract"
    /\ \E n \in 1..MaxSources : \E rs \in [1..n -> SourceRecordLists] :
          sources = [s \in 1..n |-> FetchedSource(rs[s])]
    /\ extractor = "running"
    /\ mdWritten = {}
    /\ dataIdx = 1
    /\ pipelineStarted = FALSE
    /\ PipelineIdle
    /\ readCall = <<>>
    /\ partialsConfig = AsCommitted
    /\ RenderIdle
    /\ SlugIdle

\* what the record loops never touch
notSourcesVars == <<postsPerPage, contentDir, markdownFiles, idx, posts,
                    skippedEntries, postSlices, totalPages, pageTask,
                    reported, caught, fileTask, renderVars, slugVars,
                    tagData, readCall, partialsConfig, mdWritten, dataIdx,
                    pipelineStarted>>

\* one iteration of the record loop of source s, up to the end of its
\* await fs.writeFile (a failed write is caught and logged)
GenerateFor(s) ==
    /\ pc = "extract"
    /\ extractor = "running"
    /\ sources[s].recIdx <= Len(sources[s].records)
    /\ LET title == RecordTitle(sources[s].records[sources[s].recIdx])
           slug  == EnsureUniqueSlug(SanitizeSlugDefault(title),
                                     sources[s].existingSlugs)
       IN /\ sources' = [sources EXCEPT
                ![s].existingSlugs = @ \cup {slug},
                ![s].recIdx = @ + 1]
          /\ \E ok \in BOOLEAN :
                written' =
                    IF ok
                    THEN Append(written,
                                [path |-> PathJoin(ContentDirName, slug \o ExtMd),
                                 kind |-> "markdown",
                                 html |-> title,
                                 source |-> s])
                    ELSE written
    /\ UNCHANGED <<pc, extractor>>
    /\ UNCHANGED notSourcesVars

\* await Promise.all([...csvPromises, ...jsonPromises]) resolves
SourcesJoin ==
    /\ pc = "extract"
    /\ extractor = "running"
    /\ \A s \in 1..Len(sources) : sources[s].recIdx > Len(sources[s].records)
    /\ extractor' = "returned"
    /\ UNCHANGED <<pc, sources, written>>
    /\ UNCHANGED notSourcesVars

SourcesNext ==
    \/ \E s \in 1..Len(sources) : GenerateFor(s)
    \/ SourcesJoin

SpecSources == SourcesInit /\ [][SourcesNext]_vars

\* C29: under every interleaving of the sources no two records, of one
\* source or of two, are written to the same Markdown file path
C29_NoSharedMarkdownPath ==
    \A i, j \in 1..Len(written) :
        i < j => written[i].path # written[j].path

=============================================================================
